---- MODULE Spec2Model ----
(***************************************************************************)
(* Model of the structural source-chunking engine of ferrochain            *)
(* (splitters/code/src/lib.rs): the generic packer split_node, the Rust,   *)
(* Python and JavaScript extractors and the driver Splitter::split.        *)
(*                                                                         *)
(* Text is a sequence of atoms (short strings).  A newline is always the   *)
(* atom "\n" of its own, so that str::lines can be computed; the byte      *)
(* length of a text is the sum of the lengths of its atoms.                *)
(*                                                                         *)
(* A syntax-tree node is a record                                          *)
(*   [kind, text, named, field, children]                                  *)
(* where text is node.utf8_text(source), named tells named from anonymous  *)
(* children, field is the field name under which the parent holds the node *)
(* ("" for none) and children is the ordered sequence of child nodes.      *)
(***************************************************************************)
EXTENDS Integers, Sequences, FiniteSets, TLC

VARIABLES
    language,              \* CodeSplitter.language
    max_chunk_size,        \* CodeSplitter.max_chunk_size
    docs,                  \* split: the input batch
    doc_idx,               \* split: number of documents consumed by `for doc in docs`
    split_docs,            \* split: the output vector
    result,                \* split: "running", "ok" (Ok(split_docs)) or "err"
    node,                  \* the node a walk was called on
    pos,                   \* number of children the current loop has consumed
    chunks,                \* split_node / split_rust / split_javascript: chunks
    context,               \* split_rust / split_javascript: context
    current_doc_comments,  \* split_rust: current_doc_comments
    current_chunk,         \* split_node: current_chunk
    impl_chunks,           \* split_rust, impl_item arm: impl_chunks
    function_context,      \* split_rust, impl_item arm: function_context
    impl_type,             \* split_rust, impl_item arm: impl_type
    type_parameters,       \* split_rust, impl_item arm: type_parameters
    impl_pos,              \* impl_item arm: named children of the impl_item consumed
    decl_pos,              \* impl_item arm: members of the declaration_list consumed
    pc,                    \* position of the function being modelled
    tools,                 \* ToolProvider.0: the registered tools by name
    tool_use,              \* ToolProvider::execute: the ToolUse it was called with
    tool_output,           \* ToolProvider::execute: what the tool's execute gave
    tool_result,           \* ToolProvider::execute: the value returned
    invocations,           \* the calls of a tool's execute made by the running call
    inner,                 \* InMemoryMemory.inner: the vector behind the mutex
    lock,                  \* InMemoryMemory.inner: the tasks holding the mutex
    tasks,                 \* the tasks calling the memory: operation and position
    effects,               \* history: the messages added since the last clear
    vec,                   \* Extend for Vec<Message>: self
    iter,                  \* Extend for Vec<Message>: the envelopes not yet taken
    pointer_width          \* the bits of a usize on the target of the build

vars == <<language, max_chunk_size, docs, doc_idx, split_docs, result, node, pos,
          chunks, context, current_doc_comments, current_chunk, impl_chunks,
          function_context, impl_type, type_parameters, impl_pos, decl_pos, pc,
          tools, tool_use, tool_output, tool_result, invocations,
          inner, lock, tasks, effects, vec, iter, pointer_width>>

driverVars == <<language, max_chunk_size, docs, doc_idx, split_docs, result>>
implVars == <<impl_chunks, function_context, impl_type, type_parameters, impl_pos, decl_pos>>
walkVars == <<node, pos, chunks, context, current_doc_comments, current_chunk>>
toolVars == <<tools, tool_use, tool_output, tool_result, invocations>>
memoryVars == <<inner, lock, tasks, effects>>
extendVars == <<vec, iter, pointer_width>>
coreVars == <<toolVars, memoryVars, extendVars>>

-----------------------------------------------------------------------------
(* Bounds *)

MaxChildren == 3      \* top-level children of a root node
MaxMembers == 3       \* members of an impl body
MaxDocs == 2          \* documents of a batch
MaxSize == 18         \* largest max_chunk_size tried with the packer
MaxTasks == 2         \* tasks calling the memory concurrently
MaxLog == 3           \* messages the memory holds at most
MaxEvents == 2        \* envelopes of an extend call
MaxIndex == 2         \* largest low half of an envelope index

-----------------------------------------------------------------------------
(* Text *)

NL == "\n"

RECURSIVE Flatten(_)
Flatten(texts) ==
    IF texts = <<>> THEN <<>> ELSE Head(texts) \o Flatten(Tail(texts))

RECURSIVE ByteLen(_)
ByteLen(text) ==
    IF text = <<>> THEN 0 ELSE Len(Head(text)) + ByteLen(Tail(text))

\* str::lines: the lines of a text without their terminators; a final line
\* that is empty (the text is empty or ends with a newline) is not returned.
RECURSIVE LinesFrom(_, _)
LinesFrom(text, cur) ==
    IF text = <<>>
    THEN IF cur = <<>> THEN <<>> ELSE <<cur>>
    ELSE IF Head(text) = NL
         THEN <<cur>> \o LinesFrom(Tail(text), <<>>)
         ELSE LinesFrom(Tail(text), Append(cur, Head(text)))

Lines(text) == LinesFrom(text, <<>>)

\* [String]::join(sep)
RECURSIVE Join(_, _)
Join(texts, sep) ==
    IF texts = <<>> THEN <<>>
    ELSE IF Len(texts) = 1 THEN Head(texts)
    ELSE Head(texts) \o sep \o Join(Tail(texts), sep)

\* str::starts_with("///")
StartsWithDocMarker(text) == text # <<>> /\ Head(text) = "///"

\* text has needle as a contiguous part
Contains(text, needle) ==
    \E i \in 1..(Len(text) - Len(needle) + 1) :
        SubSeq(text, i, i + Len(needle) - 1) = needle

IsPrefix(p, text) == Len(p) <= Len(text) /\ SubSeq(text, 1, Len(p)) = p

IsSuffix(s, text) ==
    Len(s) <= Len(text) /\ SubSeq(text, Len(text) - Len(s) + 1, Len(text)) = s

-----------------------------------------------------------------------------
(* Documents and nodes *)

EmptyMetadata == {}

Document(content) == [content |-> content, metadata |-> EmptyMetadata]

Utf8Text(n) == n.text

Children(n) == n.children

NamedChildren(n) == SelectSeq(n.children, LAMBDA c : c.named)

HasField(n, f) == \E i \in 1..Len(n.children) : n.children[i].field = f

ChildByFieldName(n, f) ==
    n.children[CHOOSE i \in 1..Len(n.children) :
                   /\ n.children[i].field = f
                   /\ \A j \in 1..(i - 1) : n.children[j].field # f]

\* the grammar's node kinds whose name contains "comment"
CommentKinds == {"line_comment", "block_comment"}

-----------------------------------------------------------------------------
(* split_node: the generic packer *)

\* the packing loop's locals at its entry
PackInit == [chunks |-> <<>>, current_chunk |-> <<>>]

\* variant: the chunk is flushed once it has itself outgrown the budget
MustFlushWhenOver(st, child_text, max) ==
    /\ ByteLen(st.current_chunk) > max
    /\ st.current_chunk # <<>>

\* variant: the chunk is flushed even when it is empty
MustFlushEvenEmpty(st, child_text, max) ==
    ByteLen(st.current_chunk) + ByteLen(child_text) > max

\* current_chunk.len() + child_text.len() > max_chunk_size && !current_chunk.is_empty()
MustFlush(st, child_text, max) ==
    /\ ByteLen(st.current_chunk) + ByteLen(child_text) > max
    /\ st.current_chunk # <<>>

\* variant: the child that triggers the flush is not carried into the new chunk
PackFlushStepDropsChild(st, child) ==
    [chunks |-> Append(st.chunks, Document(st.current_chunk)),
     current_chunk |-> <<>>]

\* the chunk is pushed and a new one started with the child
PackFlushStep(st, child) ==
    [chunks |-> Append(st.chunks, Document(st.current_chunk)),
     current_chunk |-> Utf8Text(child)]

\* variant: the children of a chunk are separated by a newline
PackPushStepSeparated(st, child) ==
    [st EXCEPT !.current_chunk =
        IF @ = <<>> THEN Utf8Text(child) ELSE @ \o <<NL>> \o Utf8Text(child)]

\* current_chunk.push_str(child_text)
PackPushStep(st, child) ==
    [st EXCEPT !.current_chunk = @ \o Utf8Text(child)]

\* one iteration of the loop over the node's children
PackStep(st, child, max) ==
    IF MustFlush(st, Utf8Text(child), max)
    THEN PackFlushStep(st, child)
    ELSE PackPushStep(st, child)

RECURSIVE FoldPack(_, _, _)
FoldPack(st, cs, max) ==
    IF cs = <<>> THEN st ELSE FoldPack(PackStep(st, Head(cs), max), Tail(cs), max)

\* the remainder is pushed when it is not empty
PackFinish(st) ==
    IF st.current_chunk # <<>>
    THEN Append(st.chunks, Document(st.current_chunk))
    ELSE st.chunks

\* variant: a node exactly max_chunk_size long is packed
FitsWholeStrict(n, max) == ByteLen(Utf8Text(n)) < max

\* node_text.len() <= self.max_chunk_size
FitsWhole(n, max) == ByteLen(Utf8Text(n)) <= max

\* the single chunk of a node that fits
WholeChunk(n) == <<Document(Utf8Text(n))>>

\* split_node(node, source)
SplitNode(n, max) ==
    IF FitsWhole(n, max)
    THEN WholeChunk(n)
    ELSE PackFinish(FoldPack(PackInit, Children(n), max))

\* split_python(node, source)
\* variant: import statements are chunked as well
PythonKindsAndImports == {"function_definition", "class_definition", "import_statement"}

\* child.kind() == "function_definition" || child.kind() == "class_definition"
PythonKinds == {"function_definition", "class_definition"}

PythonStep(cs, child, max) ==
    IF child.kind \in PythonKinds THEN cs \o SplitNode(child, max) ELSE cs

RECURSIVE FoldPython(_, _, _)
FoldPython(cs, children, max) ==
    IF children = <<>> THEN cs
    ELSE FoldPython(PythonStep(cs, Head(children), max), Tail(children), max)

SplitPython(root, max) == FoldPython(<<>>, NamedChildren(root), max)

-----------------------------------------------------------------------------
(* split_rust: the impl_item arm *)

\* function_context.lines().map(|line| format!("    {}", line)).collect().join("\n")
IndentedFunctionContext(fc) ==
    Join([i \in 1..Len(Lines(fc)) |-> <<"    ">> \o Lines(fc)[i]], <<NL>>)

\* impl_declaration
ImplDeclaration(tp, it) ==
    IF tp = <<>>
    THEN <<"impl", " ">> \o it
    ELSE <<"impl">> \o tp \o <<" ">> \o it

\* format!("{} {{\n{}{}\n}}", impl_declaration, indented_function_context, function_content)
MemberContent(decl, indented, function_content) ==
    decl \o <<" ", "{", NL>> \o indented \o function_content \o <<NL, "}">>

\* the state of the impl_item arm at its entry
ImplInit ==
    [impl_chunks |-> <<>>, function_context |-> <<>>,
     impl_type |-> <<>>, type_parameters |-> <<>>]

\* variant: the header state is cleared after each member instead of after the list
DeclFunctionStepClearsHeader(st, decl_child) ==
    [st EXCEPT
        !.impl_chunks = Append(@, Document(MemberContent(
            ImplDeclaration(st.type_parameters, st.impl_type),
            IndentedFunctionContext(st.function_context),
            Utf8Text(decl_child)))),
        !.function_context = <<>>,
        !.impl_type = <<>>,
        !.type_parameters = <<>>]

\* decl_child.kind() == "function_item"
DeclFunctionStep(st, decl_child) ==
    [st EXCEPT
        !.impl_chunks = Append(@, Document(MemberContent(
            ImplDeclaration(st.type_parameters, st.impl_type),
            IndentedFunctionContext(st.function_context),
            Utf8Text(decl_child)))),
        !.function_context = <<>>]

\* decl_child.kind().contains("comment")
DeclCommentStep(st, decl_child) ==
    [st EXCEPT !.function_context = @ \o Utf8Text(decl_child) \o <<NL>>]

\* one iteration of the loop over the declaration_list's named children
DeclChildStep(st, decl_child) ==
    IF decl_child.kind = "function_item" THEN DeclFunctionStep(st, decl_child)
    ELSE IF decl_child.kind \in CommentKinds THEN DeclCommentStep(st, decl_child)
    ELSE st

RECURSIVE FoldDecl(_, _)
FoldDecl(st, cs) ==
    IF cs = <<>> THEN st ELSE FoldDecl(DeclChildStep(st, Head(cs)), Tail(cs))

\* impl_type.clear(); type_parameters.clear() after the declaration_list
DeclListEndStep(st) == [st EXCEPT !.impl_type = <<>>, !.type_parameters = <<>>]

\* impl_child.kind() == "type_parameters"
TypeParametersStep(st, impl_child) ==
    [st EXCEPT !.type_parameters = Utf8Text(impl_child)]

\* variant: the names are joined by a space, without the linking "for"
ImplTypeStepNoFor(st, impl_child) ==
    [st EXCEPT !.impl_type =
        (IF @ # <<>> THEN @ \o <<" ">> ELSE @) \o Utf8Text(impl_child)]

\* the else branch: a trait or type name (or any other named child)
ImplTypeStep(st, impl_child) ==
    [st EXCEPT !.impl_type =
        (IF @ # <<>> THEN @ \o <<" for ">> ELSE @) \o Utf8Text(impl_child)]

\* one iteration of the loop over the impl_item's named children
ImplChildStep(st, impl_child) ==
    IF impl_child.kind = "declaration_list"
    THEN DeclListEndStep(FoldDecl(st, NamedChildren(impl_child)))
    ELSE IF impl_child.kind = "type_parameters" THEN TypeParametersStep(st, impl_child)
    ELSE ImplTypeStep(st, impl_child)

RECURSIVE FoldImpl(_, _)
FoldImpl(st, cs) ==
    IF cs = <<>> THEN st ELSE FoldImpl(ImplChildStep(st, Head(cs)), Tail(cs))

\* variant: an impl block without function members yields one empty chunk
ImplEndStepEmptyChunk(acc, st) ==
    [chunks |-> acc.chunks \o (IF st.impl_chunks = <<>>
                                THEN <<Document(<<>>)>> ELSE st.impl_chunks),
     context |-> <<>>,
     current_doc_comments |-> <<>>]

\* variant: the accumulators are cleared only when the block made a chunk
ImplEndStepClearsIfChunks(acc, st) ==
    [chunks |-> acc.chunks \o st.impl_chunks,
     context |-> IF st.impl_chunks = <<>> THEN acc.context ELSE <<>>,
     current_doc_comments |->
         IF st.impl_chunks = <<>> THEN acc.current_doc_comments ELSE <<>>]

\* variant: the member chunks start with the context accumulated before the block
ImplEndStepWithContext(acc, st) ==
    [chunks |-> acc.chunks \o
                    [k \in 1..Len(st.impl_chunks) |->
                        Document(acc.current_doc_comments \o acc.context
                                 \o st.impl_chunks[k].content)],
     context |-> <<>>,
     current_doc_comments |-> <<>>]

\* variant: the member chunks of an impl block go before the chunks made so far
ImplEndStepPrepends(acc, st) ==
    [chunks |-> st.impl_chunks \o acc.chunks,
     context |-> <<>>,
     current_doc_comments |-> <<>>]

\* chunks.extend(impl_chunks); current_doc_comments.clear(); context.clear()
ImplEndStep(acc, st) ==
    [chunks |-> acc.chunks \o st.impl_chunks,
     context |-> <<>>,
     current_doc_comments |-> <<>>]

\* the whole "impl_item" arm
ImplArm(acc, child) ==
    ImplEndStep(acc, FoldImpl(ImplInit, NamedChildren(child)))

-----------------------------------------------------------------------------
(* split_rust: the other arms *)

\* the attributes among the node's children, each followed by a newline
AttributeText(child) ==
    Flatten([i \in 1..Len(Children(child)) |->
        IF Children(child)[i].kind = "attribute"
        THEN Utf8Text(Children(child)[i]) \o <<NL>>
        ELSE <<>>])

\* the node's visibility field followed by a space
VisibilityText(child) ==
    IF HasField(child, "visibility")
    THEN Utf8Text(ChildByFieldName(child, "visibility")) \o <<" ">>
    ELSE <<>>

\* format!("{}{}{}", current_doc_comments, context, content)
\* variant: the context goes before the doc comments
StandaloneContentContextFirst(acc, content) ==
    acc.context \o acc.current_doc_comments \o content

\* format!("{}{}{}", current_doc_comments, context, content)
StandaloneContent(acc, content) == acc.current_doc_comments \o acc.context \o content

\* the accumulators after a chunk was pushed
Emit(acc, content) ==
    [chunks |-> Append(acc.chunks, Document(content)),
     context |-> <<>>,
     current_doc_comments |-> <<>>]

\* "struct_item" | "enum_item" | "trait_item"
StructArm(acc, child) ==
    Emit(acc, StandaloneContent(acc,
        AttributeText(child) \o VisibilityText(child) \o Utf8Text(child)))

\* "function_item" | "const_item" | "static_item" | "type_item" | "macro_definition"
FunctionArm(acc, child) ==
    Emit(acc, StandaloneContent(acc, VisibilityText(child) \o Utf8Text(child)))

\* variant: a context fragment goes before the fragments accumulated so far
ContextArmPrepends(acc, child) ==
    [acc EXCEPT !.context = Utf8Text(child) \o <<NL>> \o @]

\* "attribute_item" | "use_declaration" | "mod_item"
ContextArm(acc, child) ==
    [acc EXCEPT !.context = @ \o Utf8Text(child) \o <<NL>>]

\* "line_comment" if the text starts with "///"
DocCommentArm(acc, child) ==
    [acc EXCEPT !.current_doc_comments = @ \o Utf8Text(child)]

StructKinds == {"struct_item", "enum_item", "trait_item"}
FunctionKinds ==
    {"function_item", "const_item", "static_item", "type_item", "macro_definition"}
ContextKinds == {"attribute_item", "use_declaration", "mod_item"}

IsDocComment(child) ==
    child.kind = "line_comment" /\ StartsWithDocMarker(Utf8Text(child))

\* the arm of the match that takes the child
RustArmOf(child) ==
    IF child.kind \in StructKinds THEN "struct"
    ELSE IF child.kind = "impl_item" THEN "impl"
    ELSE IF child.kind \in FunctionKinds THEN "function"
    ELSE IF child.kind \in ContextKinds THEN "context"
    ELSE IF IsDocComment(child) THEN "doc"
    ELSE "other"

\* one iteration of split_rust's loop
RustStep(acc, child) ==
    CASE RustArmOf(child) = "struct" -> StructArm(acc, child)
      [] RustArmOf(child) = "impl" -> ImplArm(acc, child)
      [] RustArmOf(child) = "function" -> FunctionArm(acc, child)
      [] RustArmOf(child) = "context" -> ContextArm(acc, child)
      [] RustArmOf(child) = "doc" -> DocCommentArm(acc, child)
      [] OTHER -> acc

RustInit == [chunks |-> <<>>, context |-> <<>>, current_doc_comments |-> <<>>]

RECURSIVE FoldRust(_, _)
FoldRust(acc, cs) ==
    IF cs = <<>> THEN acc ELSE FoldRust(RustStep(acc, Head(cs)), Tail(cs))

\* split_rust(node, source)
SplitRust(root) == FoldRust(RustInit, NamedChildren(root)).chunks

-----------------------------------------------------------------------------
(* split_javascript *)

\* the absent parent of a root node
NoNode ==
    [kind |-> "", text |-> <<>>, named |-> FALSE, field |-> "", children |-> <<>>]

\* create_document_with_context(node, source, context)
CreateDocumentWithContext(n, ctx) == Document(ctx \o Utf8Text(n))

\* get_class_name(class_node, source)
GetClassName(class_node) ==
    LET ids == SelectSeq(NamedChildren(class_node), LAMBDA c : c.kind = "identifier")
    IN  IF ids = <<>> THEN <<>> ELSE Utf8Text(Head(ids))

\* create_method_chunk(node, source, class_name)
CreateMethodChunk(n, class_name) ==
    Document(<<"class", " ">> \o class_name \o <<" ", "{", NL>>
             \o Utf8Text(n) \o <<NL, "}">>)

JsInit == [chunks |-> <<>>, context |-> <<>>]

\* "function_declaration" | "class_declaration"
JsDeclarationArm(acc, child) ==
    [acc EXCEPT !.chunks = Append(@, CreateDocumentWithContext(child, acc.context))]

\* "method_definition": parent is child.parent(), grand is parent.parent()
JsMethodArm(acc, child, parent, grand) ==
    IF parent.kind = "class_body"
    THEN [acc EXCEPT !.chunks = Append(@, CreateMethodChunk(child, GetClassName(grand)))]
    ELSE [acc EXCEPT !.chunks = Append(@, CreateDocumentWithContext(child, acc.context))]

\* variant: the context fragments are not terminated by a newline
JsContextArmNoNewline(acc, child) ==
    [acc EXCEPT !.context = @ \o Utf8Text(child)]

\* "import_statement" | "export_statement", and "variable_declaration" under the program
JsContextArm(acc, child) ==
    [acc EXCEPT !.context = @ \o Utf8Text(child) \o <<NL>>]

JsDeclarationKinds == {"function_declaration", "class_declaration"}
JsImportKinds == {"import_statement", "export_statement"}

\* the arm of the match that takes the child
JsArmOf(child, parent) ==
    IF child.kind \in JsDeclarationKinds THEN "declaration"
    ELSE IF child.kind = "method_definition" THEN "method"
    ELSE IF child.kind \in JsImportKinds THEN "context"
    ELSE IF child.kind = "variable_declaration" /\ parent.kind = "program" THEN "context"
    ELSE "other"

\* variant: a node no arm names is taken as context
JsStepOtherAsContext(acc, child, parent, grand) ==
    CASE JsArmOf(child, parent) = "declaration" -> JsDeclarationArm(acc, child)
      [] JsArmOf(child, parent) = "method" -> JsMethodArm(acc, child, parent, grand)
      [] OTHER -> JsContextArm(acc, child)

\* one iteration of split_javascript's loop
JsStep(acc, child, parent, grand) ==
    CASE JsArmOf(child, parent) = "declaration" -> JsDeclarationArm(acc, child)
      [] JsArmOf(child, parent) = "method" -> JsMethodArm(acc, child, parent, grand)
      [] JsArmOf(child, parent) = "context" -> JsContextArm(acc, child)
      [] OTHER -> acc

RECURSIVE FoldJs(_, _, _, _)
FoldJs(acc, cs, parent, grand) ==
    IF cs = <<>> THEN acc
    ELSE FoldJs(JsStep(acc, Head(cs), parent, grand), Tail(cs), parent, grand)

\* split_javascript(node, source), called on a root node
SplitJavascript(root) == FoldJs(JsInit, NamedChildren(root), root, NoNode).chunks

-----------------------------------------------------------------------------
(* Splitter::split *)

\* CodeSplitterBuilder::build: the default max_chunk_size
DefaultMaxChunkSize == 500

\* variant: get_language has a grammar for one more identifier
SupportedLanguagesAndGo == {"rust", "python", "javascript", "go"}

\* get_language succeeds
SupportedLanguages == {"rust", "python", "javascript"}

\* parser.parse(&doc.content, None): the tree of the document's content, or
\* NoNode when the parser gives None
Parse(doc) == doc.tree

\* node.utf8_text(source) gives Err in the extractor of the language: the
\* text of the document's nodes does not decode and the extractor asks for
\* the text of one of the root's children
ExtractFails(doc, lang) ==
    /\ ~doc.valid_text
    /\ \E i \in 1..Len(NamedChildren(Parse(doc))) :
           CASE lang = "rust" ->
                    RustArmOf(NamedChildren(Parse(doc))[i]) \in
                        {"struct", "impl", "function", "context"}
             [] lang = "python" ->
                    NamedChildren(Parse(doc))[i].kind \in PythonKinds
             [] OTHER ->
                    JsArmOf(NamedChildren(Parse(doc))[i], Parse(doc)) # "other"

\* variant: a failing document ends the loop and the chunks collected so far
\* are kept
ErrReturnPartial(frame) == frame

\* `?` returns Err(e) out of split: the frame is dropped, and with it the
\* chunks collected from the documents before the failing one
ErrReturn(frame) == [doc_idx |-> 0, split_docs |-> <<>>]

\* variant: a Rust or JavaScript document over the budget goes to split_node
ChunksOfBudgeted(lang, root, max) ==
    CASE lang = "python" -> SplitPython(root, max)
      [] lang \in {"rust", "javascript"} /\ ByteLen(root.text) > max ->
            SplitNode(root, max)
      [] lang = "rust" -> SplitRust(root)
      [] lang = "javascript" -> SplitJavascript(root)
      [] OTHER -> SplitNode(root, max)

\* the match on self.language in the loop over the documents
ChunksOf(lang, root, max) ==
    CASE lang = "rust" -> SplitRust(root)
      [] lang = "python" -> SplitPython(root, max)
      [] lang = "javascript" -> SplitJavascript(root)
      [] OTHER -> SplitNode(root, max)

\* variant: the chunks keep the metadata of the document they come from
DocChunksKeepMetadata(doc, lang, max) ==
    [i \in 1..Len(ChunksOf(lang, Parse(doc), max)) |->
        [content |-> ChunksOf(lang, Parse(doc), max)[i].content,
         metadata |-> doc.metadata]]

\* variant: the context left at the end of a document becomes a chunk
DocChunksFlushContext(doc, lang, max) ==
    IF lang = "rust"
    THEN LET acc == FoldRust(RustInit, NamedChildren(Parse(doc)))
         IN  IF acc.context # <<>>
             THEN Append(acc.chunks, Document(acc.context))
             ELSE acc.chunks
    ELSE ChunksOf(lang, Parse(doc), max)

\* variant: a chunk equal to one already in the output is not added again
ExtendDocsDedup(split, new) ==
    split \o SelectSeq(new, LAMBDA c : \A k \in 1..Len(split) : split[k] # c)

\* split_docs.extend(..)
ExtendDocs(split, new) == split \o new

\* the chunks of one document of the batch
DocChunks(doc, lang, max) == ChunksOf(lang, Parse(doc), max)

-----------------------------------------------------------------------------
(* Syntax trees given to the extractors.  A tree is built from its parts in *)
(* source order: child nodes and gaps (text between children that belongs  *)
(* to no child); the text of a node is the concatenation of its parts.     *)

Gap(text) ==
    [kind |-> "", text |-> text, named |-> FALSE, field |-> "", children |-> <<>>]

\* an anonymous token
Tok(s) ==
    [kind |-> s, text |-> <<s>>, named |-> FALSE, field |-> "", children |-> <<>>]

\* a named node without children of interest
Leaf(kind, text) ==
    [kind |-> kind, text |-> text, named |-> TRUE, field |-> "", children |-> <<>>]

Tree(kind, parts) ==
    [kind |-> kind,
     text |-> Flatten([i \in 1..Len(parts) |-> parts[i].text]),
     named |-> TRUE,
     field |-> "",
     children |-> SelectSeq(parts, LAMBDA p : p.kind # "")]

WithField(f, n) == [n EXCEPT !.field = f]

\* parts separated by a gap
RECURSIVE Spaced(_, _)
Spaced(parts, gap) ==
    IF Len(parts) <= 1 THEN parts
    ELSE <<Head(parts), Gap(gap)>> \o Spaced(Tail(parts), gap)

ItemNames == <<"A", "B", "C", "D", "E">>
MemberNames == <<"f", "g", "h", "k", "m">>

\* members of an impl body: the j-th member of a body is named MemberNames[j]
MemberShapes == {"fn", "doc", "line", "const"}

Member(shape, j) ==
    CASE shape = "fn" ->
            Tree("function_item",
                 <<Tok("fn"), Gap(<<" ">>),
                   WithField("name", Leaf("identifier", <<MemberNames[j]>>)),
                   WithField("parameters", Leaf("parameters", <<"()">>)), Gap(<<" ">>),
                   WithField("body", Leaf("block", <<"{}">>))>>)
      [] shape = "doc" -> Leaf("line_comment", <<"///", MemberNames[j], NL>>)
      [] shape = "line" -> Leaf("line_comment", <<"//", MemberNames[j]>>)
      [] shape = "const" ->
            Tree("const_item",
                 <<Tok("const"), Gap(<<" ">>),
                   WithField("name", Leaf("identifier", <<MemberNames[j]>>)),
                   Tok(";")>>)

MemberLists(n) ==
    UNION {{[j \in 1..k |-> Member(shapes[j], j)] : shapes \in [1..k -> MemberShapes]}
           : k \in 0..n}

DeclarationList(members) ==
    WithField("body",
        Tree("declaration_list",
             <<Tok("{"), Gap(<<NL>>)>>
             \o Flatten([j \in 1..Len(members) |->
                    <<Gap(<<"    ">>), members[j],
                      Gap(IF IsSuffix(<<NL>>, members[j].text) THEN <<>> ELSE <<NL>>)>>])
             \o <<Tok("}")>>))

\* the header of an impl block: an optional type-parameter clause, an optional
\* trait, the type and an optional where clause
ImplHeaders == [params : BOOLEAN, trait : BOOLEAN, where : BOOLEAN]

ImplItem(h, members) ==
    Tree("impl_item",
         <<Tok("impl")>>
         \o (IF h.params
             THEN <<WithField("type_parameters", Leaf("type_parameters", <<"<T>">>))>>
             ELSE <<>>)
         \o <<Gap(<<" ">>)>>
         \o (IF h.trait
             THEN <<WithField("trait", Leaf("type_identifier", <<"P">>)),
                    Gap(<<" ">>), Tok("for"), Gap(<<" ">>)>>
             ELSE <<>>)
         \o <<WithField("type",
                 Leaf(IF h.params THEN "generic_type" ELSE "type_identifier",
                      IF h.params THEN <<"Vec<T>">> ELSE <<"S">>))>>
         \o (IF h.where
             THEN <<Gap(<<" ">>), Leaf("where_clause", <<"where", " ", "T: P">>)>>
             ELSE <<>>)
         \o <<Gap(<<" ">>), DeclarationList(members)>>)

ImplItems(n) == {ImplItem(h, ms) : h \in ImplHeaders, ms \in MemberLists(n)}

\* top-level children of a Rust source file: the i-th child is named ItemNames[i]
ItemShapes ==
    {"struct", "pub_struct", "fn", "pub_const", "impl_empty", "impl_two",
     "impl_trait", "use", "attr", "doc", "line", "macro_call"}

Item(shape, i) ==
    CASE shape = "struct" ->
            Tree("struct_item",
                 <<Tok("struct"), Gap(<<" ">>),
                   WithField("name", Leaf("type_identifier", <<ItemNames[i]>>)),
                   Tok(";")>>)
      [] shape = "pub_struct" ->
            Tree("struct_item",
                 <<Leaf("attribute", <<"#[a]">>), Gap(<<" ">>),
                   WithField("visibility", Leaf("visibility_modifier", <<"pub">>)),
                   Gap(<<" ">>), Tok("struct"), Gap(<<" ">>),
                   WithField("name", Leaf("type_identifier", <<ItemNames[i]>>)),
                   Tok(";")>>)
      [] shape = "fn" ->
            Tree("function_item",
                 <<Leaf("visibility_modifier", <<"pub">>), Gap(<<" ">>),
                   Tok("fn"), Gap(<<" ">>),
                   WithField("name", Leaf("identifier", <<ItemNames[i]>>)),
                   WithField("parameters", Leaf("parameters", <<"()">>)), Gap(<<" ">>),
                   WithField("body", Leaf("block", <<"{}">>))>>)
      [] shape = "pub_const" ->
            Tree("const_item",
                 <<WithField("visibility", Leaf("visibility_modifier", <<"pub">>)),
                   Gap(<<" ">>), Tok("const"), Gap(<<" ">>),
                   WithField("name", Leaf("identifier", <<ItemNames[i]>>)),
                   Tok(";")>>)
      [] shape = "impl_empty" ->
            ImplItem([params |-> FALSE, trait |-> FALSE, where |-> FALSE], <<>>)
      [] shape = "impl_two" ->
            ImplItem([params |-> FALSE, trait |-> FALSE, where |-> FALSE],
                     <<Member("doc", 1), Member("fn", 2), Member("fn", 3)>>)
      [] shape = "impl_trait" ->
            ImplItem([params |-> TRUE, trait |-> TRUE, where |-> FALSE],
                     <<Member("fn", 1)>>)
      [] shape = "use" ->
            Tree("use_declaration",
                 <<Tok("use"), Gap(<<" ">>),
                   WithField("argument", Leaf("identifier", <<ItemNames[i]>>)),
                   Tok(";")>>)
      [] shape = "attr" ->
            Tree("attribute_item",
                 <<Tok("#"), Tok("["), Leaf("attribute", <<ItemNames[i]>>), Tok("]")>>)
      [] shape = "doc" -> Leaf("line_comment", <<"///", ItemNames[i], NL>>)
      [] shape = "line" -> Leaf("line_comment", <<"//", ItemNames[i]>>)
      [] shape = "macro_call" ->
            Tree("expression_statement",
                 <<Leaf("macro_invocation", <<ItemNames[i], "!()">>), Tok(";")>>)

\* a source file with the given top-level children, one to a line
SourceFile(kind, items) ==
    Tree(kind,
         Flatten([i \in 1..Len(items) |->
             <<items[i],
               Gap(IF IsSuffix(<<NL>>, items[i].text) THEN <<>> ELSE <<NL>>)>>]))

RustRoots(n) ==
    UNION {{SourceFile("source_file", [i \in 1..k |-> Item(shapes[i], i)])
              : shapes \in [1..k -> ItemShapes]}
           : k \in 0..n}

\* source files around one impl block of any shape
ImplRoots(n) ==
    {SourceFile("source_file", around[1] \o <<impl>> \o around[2]) :
        around \in {<< <<>>, <<>> >>,
                    << <<Item("doc", 3), Item("use", 4)>>, <<Item("fn", 5)>> >>},
        impl \in ImplItems(n)}

-----------------------------------------------------------------------------
(* split_rust, one loop iteration at a time *)

Idle ==
    /\ language = "rust" /\ max_chunk_size = DefaultMaxChunkSize
    /\ docs = <<>> /\ doc_idx = 0 /\ split_docs = <<>> /\ result = "running"

NoWalk ==
    /\ pos = 0 /\ chunks = <<>> /\ context = <<>>
    /\ current_doc_comments = <<>> /\ current_chunk = <<>>

NoImpl ==
    /\ impl_chunks = <<>> /\ function_context = <<>> /\ impl_type = <<>>
    /\ type_parameters = <<>> /\ impl_pos = 0 /\ decl_pos = 0

\* no ToolProvider in use
NoTools ==
    /\ tools = <<>> /\ tool_use = <<>> /\ tool_output = <<>>
    /\ tool_result = <<>> /\ invocations = <<>>

\* no InMemoryMemory in use
NoMemory == inner = <<>> /\ lock = {} /\ tasks = <<>> /\ effects = <<>>

\* no Vec<Message> being extended
NoExtend == vec = <<>> /\ iter = <<>> /\ pointer_width = 64

NoProvider == NoTools /\ NoMemory /\ NoExtend

Acc ==
    [chunks |-> chunks, context |-> context,
     current_doc_comments |-> current_doc_comments]

SetAcc(acc) ==
    /\ chunks' = acc.chunks
    /\ context' = acc.context
    /\ current_doc_comments' = acc.current_doc_comments

ImplState ==
    [impl_chunks |-> impl_chunks, function_context |-> function_context,
     impl_type |-> impl_type, type_parameters |-> type_parameters]

SetImplState(st) ==
    /\ impl_chunks' = st.impl_chunks
    /\ function_context' = st.function_context
    /\ impl_type' = st.impl_type
    /\ type_parameters' = st.type_parameters

HasChild == pos < Len(NamedChildren(node))
Child == NamedChildren(node)[pos + 1]
HasImplChild == impl_pos < Len(NamedChildren(Child))
ImplChild == NamedChildren(Child)[impl_pos + 1]
HasDeclChild == decl_pos < Len(NamedChildren(ImplChild))
DeclChild == NamedChildren(ImplChild)[decl_pos + 1]

RustInitState ==
    /\ Idle /\ NoWalk /\ NoImpl /\ NoProvider
    /\ node \in RustRoots(MaxChildren) \cup ImplRoots(MaxMembers)
    /\ pc = "split_rust"

RustStructItem ==
    /\ pc = "split_rust" /\ HasChild /\ RustArmOf(Child) = "struct"
    /\ SetAcc(StructArm(Acc, Child))
    /\ pos' = pos + 1
    /\ UNCHANGED <<coreVars, driverVars, implVars, node, current_chunk, pc>>

RustFunctionItem ==
    /\ pc = "split_rust" /\ HasChild /\ RustArmOf(Child) = "function"
    /\ SetAcc(FunctionArm(Acc, Child))
    /\ pos' = pos + 1
    /\ UNCHANGED <<coreVars, driverVars, implVars, node, current_chunk, pc>>

RustContextItem ==
    /\ pc = "split_rust" /\ HasChild /\ RustArmOf(Child) = "context"
    /\ SetAcc(ContextArm(Acc, Child))
    /\ pos' = pos + 1
    /\ UNCHANGED <<coreVars, driverVars, implVars, node, current_chunk, pc>>

RustDocComment ==
    /\ pc = "split_rust" /\ HasChild /\ RustArmOf(Child) = "doc"
    /\ SetAcc(DocCommentArm(Acc, Child))
    /\ pos' = pos + 1
    /\ UNCHANGED <<coreVars, driverVars, implVars, node, current_chunk, pc>>

RustOther ==
    /\ pc = "split_rust" /\ HasChild /\ RustArmOf(Child) = "other"
    /\ pos' = pos + 1
    /\ UNCHANGED <<coreVars, driverVars, implVars, node, chunks, context,
                   current_doc_comments, current_chunk, pc>>

RustImplItem ==
    /\ pc = "split_rust" /\ HasChild /\ RustArmOf(Child) = "impl"
    /\ SetImplState(ImplInit)
    /\ impl_pos' = 0 /\ decl_pos' = 0
    /\ pc' = "impl_item"
    /\ UNCHANGED <<coreVars, driverVars, walkVars>>

ImplTypeParameters ==
    /\ pc = "impl_item" /\ HasImplChild /\ ImplChild.kind = "type_parameters"
    /\ SetImplState(TypeParametersStep(ImplState, ImplChild))
    /\ impl_pos' = impl_pos + 1
    /\ UNCHANGED <<coreVars, driverVars, walkVars, decl_pos, pc>>

ImplTypeName ==
    /\ pc = "impl_item" /\ HasImplChild
    /\ ImplChild.kind \notin {"declaration_list", "type_parameters"}
    /\ SetImplState(ImplTypeStep(ImplState, ImplChild))
    /\ impl_pos' = impl_pos + 1
    /\ UNCHANGED <<coreVars, driverVars, walkVars, decl_pos, pc>>

ImplDeclarationList ==
    /\ pc = "impl_item" /\ HasImplChild /\ ImplChild.kind = "declaration_list"
    /\ decl_pos' = 0
    /\ pc' = "declaration_list"
    /\ UNCHANGED <<coreVars, driverVars, walkVars, impl_chunks, function_context, impl_type,
                   type_parameters, impl_pos>>

DeclFunctionItem ==
    /\ pc = "declaration_list" /\ HasDeclChild /\ DeclChild.kind = "function_item"
    /\ SetImplState(DeclFunctionStep(ImplState, DeclChild))
    /\ decl_pos' = decl_pos + 1
    /\ UNCHANGED <<coreVars, driverVars, walkVars, impl_pos, pc>>

DeclComment ==
    /\ pc = "declaration_list" /\ HasDeclChild
    /\ DeclChild.kind # "function_item" /\ DeclChild.kind \in CommentKinds
    /\ SetImplState(DeclCommentStep(ImplState, DeclChild))
    /\ decl_pos' = decl_pos + 1
    /\ UNCHANGED <<coreVars, driverVars, walkVars, impl_pos, pc>>

DeclOther ==
    /\ pc = "declaration_list" /\ HasDeclChild
    /\ DeclChild.kind # "function_item" /\ DeclChild.kind \notin CommentKinds
    /\ decl_pos' = decl_pos + 1
    /\ UNCHANGED <<coreVars, driverVars, walkVars, impl_chunks, function_context, impl_type,
                   type_parameters, impl_pos, pc>>

DeclarationListEnd ==
    /\ pc = "declaration_list" /\ ~HasDeclChild
    /\ SetImplState(DeclListEndStep(ImplState))
    /\ impl_pos' = impl_pos + 1
    /\ decl_pos' = 0
    /\ pc' = "impl_item"
    /\ UNCHANGED <<coreVars, driverVars, walkVars>>

ImplItemEnd ==
    /\ pc = "impl_item" /\ ~HasImplChild
    /\ SetAcc(ImplEndStep(Acc, ImplState))
    /\ SetImplState(ImplInit)
    /\ impl_pos' = 0 /\ decl_pos' = 0
    /\ pos' = pos + 1
    /\ pc' = "split_rust"
    /\ UNCHANGED <<coreVars, driverVars, node, current_chunk>>

RustReturn ==
    /\ pc = "split_rust" /\ ~HasChild
    /\ pc' = "returned"
    /\ UNCHANGED <<coreVars, driverVars, walkVars, implVars>>

RustNext ==
    \/ RustStructItem \/ RustFunctionItem \/ RustContextItem \/ RustDocComment
    \/ RustOther \/ RustImplItem
    \/ ImplTypeParameters \/ ImplTypeName \/ ImplDeclarationList
    \/ DeclFunctionItem \/ DeclComment \/ DeclOther
    \/ DeclarationListEnd \/ ImplItemEnd
    \/ RustReturn

SpecRust == RustInitState /\ [][RustNext]_vars

-----------------------------------------------------------------------------
(* Properties of split_rust *)

Contents(ds) == [i \in 1..Len(ds) |-> ds[i].content]

\* the kinds of top-level item that are chunks of their own
StandaloneItemKinds ==
    {"struct_item", "enum_item", "trait_item", "function_item", "const_item",
     "static_item", "type_item", "macro_definition"}

\* the function items directly inside the declaration lists of an impl block
ImplFunctions(impl) ==
    Flatten([i \in 1..Len(NamedChildren(impl)) |->
        IF NamedChildren(impl)[i].kind = "declaration_list"
        THEN SelectSeq(NamedChildren(NamedChildren(impl)[i]),
                       LAMBDA m : m.kind = "function_item")
        ELSE <<>>])

\* the texts of the items of a sequence of top-level children that yield a chunk
ChunkedItemTexts(children) ==
    Flatten([i \in 1..Len(children) |->
        IF children[i].kind \in StandaloneItemKinds THEN <<children[i].text>>
        ELSE IF children[i].kind = "impl_item"
             THEN [j \in 1..Len(ImplFunctions(children[i])) |->
                      ImplFunctions(children[i])[j].text]
             ELSE <<>>])

\* chunk j holds the text of item j and of no item with another text
InOrderOneToOne(cs, items) ==
    /\ Len(cs) = Len(items)
    /\ \A j \in 1..Len(items) :
        /\ Contains(cs[j].content, items[j])
        /\ \A k \in 1..Len(cs) :
              (k # j /\ items[k] # items[j]) => ~Contains(cs[k].content, items[j])

\* C1: whenever split_rust is between two top-level children or has returned,
\* its chunks are, in source order, one for each standalone item and each
\* function member of an impl block among the children consumed, each
\* holding its item's text, and no chunk is empty.
C1_RustChunkPerItem ==
    pc \in {"split_rust", "returned"} =>
        /\ InOrderOneToOne(chunks,
               ChunkedItemTexts(SubSeq(NamedChildren(node), 1, pos)))
        /\ \A j \in 1..Len(chunks) : chunks[j].content # <<>>

C1_Witness ==
    /\ pc = "returned"
    /\ Len(chunks) >= 3
    /\ \E i, j \in 1..Len(NamedChildren(node)) :
        /\ NamedChildren(node)[i].kind = "impl_item"
        /\ ImplFunctions(NamedChildren(node)[i]) = <<>>
        /\ NamedChildren(node)[j].kind = "impl_item"
        /\ Len(ImplFunctions(NamedChildren(node)[j])) = 2

\* an impl block whose named children are only an optional type-parameter
\* clause, the trait and/or type names and the declaration list
PlainImpl(impl) ==
    \A i \in 1..Len(NamedChildren(impl)) :
        \/ NamedChildren(impl)[i].kind \in {"type_parameters", "declaration_list"}
        \/ NamedChildren(impl)[i].field \in {"trait", "type"}

\* `impl <Subject>` or `impl<Params> <Subject>`
ExpectedHeader(impl) ==
    <<"impl">>
    \o (IF HasField(impl, "type_parameters")
        THEN ChildByFieldName(impl, "type_parameters").text ELSE <<>>)
    \o <<" ">>
    \o (IF HasField(impl, "trait")
        THEN ChildByFieldName(impl, "trait").text \o <<" for ">> ELSE <<>>)
    \o ChildByFieldName(impl, "type").text

\* the comments that directly precede member j: those after the last function
\* before it
RECURSIVE CommentsBefore(_, _)
CommentsBefore(members, j) ==
    IF j = 1 \/ members[j - 1].kind = "function_item" THEN <<>>
    ELSE CommentsBefore(members, j - 1)
         \o (IF members[j - 1].kind \in {"line_comment", "block_comment"}
             THEN <<members[j - 1].text>> ELSE <<>>)

\* each comment ends its line; every line is indented by four spaces
IndentedComments(comments) ==
    LET ls == Lines(Flatten([i \in 1..Len(comments) |-> comments[i] \o <<NL>>]))
    IN  Join([i \in 1..Len(ls) |-> <<"    ">> \o ls[i]], <<NL>>)

ExpectedMemberContents(impl, members) ==
    Flatten([j \in 1..Len(members) |->
        IF members[j].kind = "function_item"
        THEN <<ExpectedHeader(impl) \o <<" ", "{", NL>>
               \o IndentedComments(CommentsBefore(members, j))
               \o members[j].text \o <<NL, "}">>>>
        ELSE <<>>])

\* C2: while the members of a plain impl block are walked, the chunks made so
\* far are `<header> {\n<indented comments><member text>\n}` for each function
\* member consumed, with header `impl <Subject>` or `impl<Params> <Subject>`
\* and Subject `<Trait> for <Type>` or `<Type>`.
C2_MemberChunkForm ==
    (pc = "declaration_list" /\ PlainImpl(Child)) =>
        Contents(impl_chunks) =
            ExpectedMemberContents(Child,
                SubSeq(NamedChildren(ImplChild), 1, decl_pos))

C2_Witness ==
    /\ pc = "declaration_list" /\ PlainImpl(Child)
    /\ HasField(Child, "type_parameters") /\ HasField(Child, "trait")
    /\ Len(impl_chunks) = 2
    /\ decl_pos = 3
    /\ NamedChildren(ImplChild)[2].kind = "line_comment"

FirstLine(text) == Lines(text)[1]

\* C3: all member chunks extracted from one impl block have the same first line.
C3_HeaderStable ==
    \A i, j \in 1..Len(impl_chunks) :
        FirstLine(impl_chunks[i].content) = FirstLine(impl_chunks[j].content)

C3_Witness ==
    /\ pc = "declaration_list"
    /\ Len(impl_chunks) = 3
    /\ HasField(Child, "trait")
    /\ ~PlainImpl(Child)

\* the last top-level child before child i that clears the accumulators (a
\* standalone item or an impl block), 0 when there is none
LastFlushBefore(children, i) ==
    LET at == {j \in 1..(i - 1) :
                  children[j].kind \in StandaloneItemKinds \cup {"impl_item"}}
    IN  IF at = {} THEN 0 ELSE CHOOSE j \in at : \A m \in at : m <= j

\* the `///` comments among the children after the last flush and before child i
DocCommentsFor(children, i) ==
    SelectSeq(SubSeq(children, LastFlushBefore(children, i) + 1, i - 1),
              LAMBDA c : c.kind = "line_comment" /\ c.text[1] = "///")

\* the attribute items, use declarations and mod items there
ContextNodesFor(children, i) ==
    SelectSeq(SubSeq(children, LastFlushBefore(children, i) + 1, i - 1),
              LAMBDA c : c.kind \in {"attribute_item", "use_declaration", "mod_item"})

\* the attributes directly attached to a node, each followed by a newline,
\* and its visibility qualifier followed by a space
AttachedModifiers(n) ==
    Flatten([a \in 1..Len(n.children) |->
        IF n.children[a].kind = "attribute" THEN n.children[a].text \o <<NL>> ELSE <<>>])
    \o Flatten([a \in 1..Len(n.children) |->
        IF n.children[a].field = "visibility" THEN n.children[a].text \o <<" ">>
        ELSE <<>>])

\* C17: the chunk of every standalone item consumed is the `///` comments
\* accumulated since the last flush, then the attribute items, use
\* declarations and mod items accumulated since then, each followed by a
\* newline, then the item's attached attributes and visibility, then the
\* item's text; when there are such comments the chunk starts with the
\* first of them.
C17_StandaloneComposition ==
    \A i \in 1..pos :
        NamedChildren(node)[i].kind \in StandaloneItemKinds =>
            LET children == NamedChildren(node)
                k == Len(ChunkedItemTexts(SubSeq(children, 1, i)))
                doc_comments == DocCommentsFor(children, i)
                context_nodes == ContextNodesFor(children, i)
            IN  /\ k <= Len(chunks)
                /\ chunks[k].content =
                       Flatten([j \in 1..Len(doc_comments) |-> doc_comments[j].text])
                       \o Flatten([j \in 1..Len(context_nodes) |->
                              context_nodes[j].text \o <<NL>>])
                       \o AttachedModifiers(children[i])
                       \o children[i].text
                /\ doc_comments # <<>> =>
                       IsPrefix(doc_comments[1].text, chunks[k].content)

C17_Witness ==
    /\ pc = "returned"
    /\ Len(NamedChildren(node)) = 3
    /\ NamedChildren(node)[1].kind = "use_declaration"
    /\ NamedChildren(node)[2].kind = "line_comment"
    /\ NamedChildren(node)[2].text[1] = "///"
    /\ NamedChildren(node)[3].kind = "struct_item"
    /\ AttachedModifiers(NamedChildren(node)[3]) = <<"#[a]", NL, "pub", " ">>
    /\ Len(chunks) = 1
    /\ IsPrefix(NamedChildren(node)[2].text \o NamedChildren(node)[1].text,
                chunks[1].content)

\* the place of the first occurrence of a needle in a text that contains it
OffsetOf(text, needle) ==
    CHOOSE o \in 0..(Len(text) - Len(needle)) :
        /\ SubSeq(text, o + 1, o + Len(needle)) = needle
        /\ \A m \in 0..(o - 1) : SubSeq(text, m + 1, m + Len(needle)) # needle

\* child j is a `///` comment
IsDocFragment(children, j) ==
    children[j].kind = "line_comment" /\ children[j].text[1] = "///"

\* child j is a context fragment: a `///` comment, an attribute item, a use
\* declaration or a mod item
IsFragment(children, j) ==
    \/ IsDocFragment(children, j)
    \/ children[j].kind \in {"attribute_item", "use_declaration", "mod_item"}

\* the fragments a and b, a before b in the source, are both accumulated for
\* the chunk of the standalone item i
FragmentPair(children, a, b, i) ==
    /\ LastFlushBefore(children, i) < a /\ a < b /\ b < i
    /\ IsFragment(children, a) /\ IsFragment(children, b)

\* C18 as stated: any two context fragments accumulated for the chunk of a
\* standalone item lie in the chunk in the order of their nodes in the source.
C18_FragmentsInSourceOrder ==
    \A i \in 1..pos :
        NamedChildren(node)[i].kind \in StandaloneItemKinds =>
            LET children == NamedChildren(node)
                chunk == chunks[Len(ChunkedItemTexts(SubSeq(children, 1, i)))].content
            IN  \A a, b \in 1..(i - 1) :
                    FragmentPair(children, a, b, i) =>
                        OffsetOf(chunk, children[a].text) < OffsetOf(chunk, children[b].text)

\* C18, amended: two `///` comments lie in the chunk in source order, and so
\* do two fragments of the other context (attribute items, use declarations,
\* mod items); a `///` comment lies before every fragment of the other
\* context, also when its node follows that fragment's node in the source.
C18_FragmentsInBufferOrder ==
    \A i \in 1..pos :
        NamedChildren(node)[i].kind \in StandaloneItemKinds =>
            LET children == NamedChildren(node)
                chunk == chunks[Len(ChunkedItemTexts(SubSeq(children, 1, i)))].content
            IN  \A a, b \in 1..(i - 1) :
                    FragmentPair(children, a, b, i) =>
                        IF IsDocFragment(children, b) /\ ~IsDocFragment(children, a)
                        THEN OffsetOf(chunk, children[b].text)
                                 < OffsetOf(chunk, children[a].text)
                        ELSE OffsetOf(chunk, children[a].text)
                                 < OffsetOf(chunk, children[b].text)

C18_Witness ==
    /\ pc = "returned"
    /\ Len(NamedChildren(node)) = 3
    /\ NamedChildren(node)[1].kind = "attribute_item"
    /\ IsDocFragment(NamedChildren(node), 2)
    /\ NamedChildren(node)[3].kind = "function_item"
    /\ Len(chunks) = 1
    /\ OffsetOf(chunks[1].content, NamedChildren(node)[2].text) = 0
    /\ OffsetOf(chunks[1].content, NamedChildren(node)[1].text) > 0

\* the number of places of a text that hold the atom
CountOf(text, atom) == Cardinality({i \in 1..Len(text) : text[i] = atom})

\* C19: the header of every member chunk of the impl block being walked,
\* whatever the block's other named children, holds the linking phrase
\* " for " once when the block has a trait and not at all when it has none,
\* and the header of an inherent impl is `impl`, the type parameters if any,
\* a space and the type name.
C19_ForOnlyWithTrait ==
    pc \in {"impl_item", "declaration_list"} =>
        \A k \in 1..Len(impl_chunks) :
            LET header == FirstLine(impl_chunks[k].content)
            IN  /\ CountOf(header, " for ") = IF HasField(Child, "trait") THEN 1 ELSE 0
                /\ ~HasField(Child, "trait") =>
                       header = <<"impl">>
                                \o (IF HasField(Child, "type_parameters")
                                    THEN ChildByFieldName(Child, "type_parameters").text
                                    ELSE <<>>)
                                \o <<" ">> \o ChildByFieldName(Child, "type").text
                                \o <<" ", "{">>

\* the member that follows the run of comments member j belongs to is not a
\* function: it is another kind of member, or the list ends with the run
FollowedByNoFunction(members, j) ==
    LET after == {m \in (j + 1)..Len(members) : members[m].kind \notin CommentKinds}
    IN  \/ after = {}
        \/ members[CHOOSE m \in after : \A o \in after : m <= o].kind # "function_item"

\* C20: while the members of an impl body are walked, a comment consumed
\* whose run of comments is followed by a member that is not a function, or
\* by the end of the member list, is in none of the block's member chunks.
C20_StrayCommentDiscarded ==
    pc = "declaration_list" =>
        \A j \in 1..decl_pos :
            (/\ NamedChildren(ImplChild)[j].kind \in CommentKinds
             /\ FollowedByNoFunction(NamedChildren(ImplChild), j)) =>
                \A k \in 1..Len(impl_chunks) :
                    ~Contains(impl_chunks[k].content,
                              SubSeq(NamedChildren(ImplChild)[j].text, 1, 2))

\* the places in the output of the chunks of the top-level child i
ChunkPlaces(children, i) ==
    (Len(ChunkedItemTexts(SubSeq(children, 1, i - 1))) + 1)
        ..Len(ChunkedItemTexts(SubSeq(children, 1, i)))

\* C21: a doc comment or context fragment that lies before an impl block
\* already walked is in no chunk of a declaration after that block, whether
\* or not the block made member chunks.
C21_ClearedAfterImpl ==
    LET children == NamedChildren(node)
    IN  \A j, m, i \in 1..pos :
            (/\ j < m /\ m < i
             /\ IsFragment(children, j)
             /\ children[m].kind = "impl_item") =>
                \A k \in ChunkPlaces(children, i) :
                    /\ k <= Len(chunks)
                    /\ ~Contains(chunks[k].content, children[j].text)

C21_Witness ==
    /\ pc = "returned"
    /\ Len(NamedChildren(node)) = 3
    /\ IsDocFragment(NamedChildren(node), 1)
    /\ NamedChildren(node)[2].kind = "impl_item"
    /\ ImplFunctions(NamedChildren(node)[2]) = <<>>
    /\ NamedChildren(node)[3].kind = "struct_item"
    /\ Len(chunks) = 1
    /\ chunks[1].content = NamedChildren(node)[3].text

\* C28: the member chunks of an impl block already walked hold none of the
\* doc comments and context fragments that lie before the block; each starts
\* with the block's header and ends with the member's text and the closing
\* brace.
C28_MemberChunkWithoutContext ==
    LET children == NamedChildren(node)
    IN  \A m \in 1..pos :
            children[m].kind = "impl_item" =>
                \A n \in 1..Len(ImplFunctions(children[m])) :
                    LET k == Len(ChunkedItemTexts(SubSeq(children, 1, m - 1))) + n
                    IN  /\ k <= Len(chunks)
                        /\ IsPrefix(<<"impl">>, chunks[k].content)
                        /\ IsSuffix(ImplFunctions(children[m])[n].text \o <<NL, "}">>,
                                    chunks[k].content)
                        /\ \A j \in 1..(m - 1) :
                               IsFragment(children, j) =>
                                   ~Contains(chunks[k].content, children[j].text)

C28_Witness ==
    /\ pc = "returned"
    /\ Len(NamedChildren(node)) >= 3
    /\ IsDocFragment(NamedChildren(node), 1)
    /\ NamedChildren(node)[2].kind = "use_declaration"
    /\ NamedChildren(node)[3].kind = "impl_item"
    /\ Len(ImplFunctions(NamedChildren(node)[3])) >= 2
    /\ Len(chunks) >= 2
    /\ IsPrefix(<<"impl">>, chunks[1].content)

-----------------------------------------------------------------------------
(* split_node, one loop iteration at a time, on the nodes split_python      *)
(* passes to it: Python function and class definitions.  A MISSING token   *)
(* inserted by error recovery is a child of width zero.                    *)

Missing(s) ==
    [kind |-> s, text |-> <<>>, named |-> FALSE, field |-> "", children |-> <<>>]

PyDefShapes ==
    [kind : PythonKinds, name : {<<"f">>, <<"long_name">>}, colon : BOOLEAN,
     comment : BOOLEAN, body : {<<"pass">>, <<"return", " ", "1">>, <<"x", NL, "    ", "y">>}]

PyDefinition(d) ==
    Tree(d.kind,
         <<Tok(IF d.kind = "function_definition" THEN "def" ELSE "class"),
           Gap(<<" ">>),
           WithField("name", Leaf("identifier", d.name))>>
         \o (IF d.kind = "function_definition"
             THEN <<WithField("parameters", Leaf("parameters", <<"()">>))>>
             ELSE <<>>)
         \o <<IF d.colon THEN Tok(":") ELSE Missing(":")>>
         \o (IF d.comment
             THEN <<Gap(<<" ">>), Leaf("comment", <<"#", "c">>)>>
             ELSE <<>>)
         \o <<Gap(<<NL, "    ">>), WithField("body", Leaf("block", d.body))>>)

PyDefinitions == {PyDefinition(d) : d \in PyDefShapes}

NodeInitState ==
    /\ language = "python"
    /\ max_chunk_size \in 0..MaxSize
    /\ docs = <<>> /\ doc_idx = 0 /\ split_docs = <<>> /\ result = "running"
    /\ NoWalk /\ NoImpl /\ NoProvider
    /\ node \in PyDefinitions
    /\ pc = "split_node"

PackState == [chunks |-> chunks, current_chunk |-> current_chunk]

SetPackState(st) ==
    /\ chunks' = st.chunks
    /\ current_chunk' = st.current_chunk

HasPackChild == pos < Len(Children(node))
PackChild == Children(node)[pos + 1]

\* the early return for a node that fits
SplitNodeWhole ==
    /\ pc = "split_node" /\ FitsWhole(node, max_chunk_size)
    /\ chunks' = WholeChunk(node)
    /\ pc' = "returned"
    /\ UNCHANGED <<coreVars, driverVars, implVars, node, pos, context, current_doc_comments,
                   current_chunk>>

SplitNodeOversize ==
    /\ pc = "split_node" /\ ~FitsWhole(node, max_chunk_size)
    /\ SetPackState(PackInit)
    /\ pc' = "pack"
    /\ UNCHANGED <<coreVars, driverVars, implVars, node, pos, context, current_doc_comments>>

PackFlush ==
    /\ pc = "pack" /\ HasPackChild
    /\ MustFlush(PackState, Utf8Text(PackChild), max_chunk_size)
    /\ SetPackState(PackFlushStep(PackState, PackChild))
    /\ pos' = pos + 1
    /\ UNCHANGED <<coreVars, driverVars, implVars, node, context, current_doc_comments, pc>>

PackPush ==
    /\ pc = "pack" /\ HasPackChild
    /\ ~MustFlush(PackState, Utf8Text(PackChild), max_chunk_size)
    /\ SetPackState(PackPushStep(PackState, PackChild))
    /\ pos' = pos + 1
    /\ UNCHANGED <<coreVars, driverVars, implVars, node, context, current_doc_comments, pc>>

PackReturn ==
    /\ pc = "pack" /\ ~HasPackChild
    /\ chunks' = PackFinish(PackState)
    /\ current_chunk' = <<>>
    /\ pc' = "returned"
    /\ UNCHANGED <<coreVars, driverVars, implVars, node, pos, context, current_doc_comments>>

NodeNext ==
    \/ SplitNodeWhole \/ SplitNodeOversize
    \/ PackFlush \/ PackPush \/ PackReturn

SpecNode == NodeInitState /\ [][NodeNext]_vars

\* C5: a node whose text is at most max_chunk_size long yields exactly one
\* chunk, whose content is the node's text.
C5_FitsWholeOneChunk ==
    (pc = "returned" /\ ByteLen(node.text) <= max_chunk_size) =>
        /\ Len(chunks) = 1
        /\ chunks[1].content = node.text

C5_Witness ==
    /\ pc = "returned"
    /\ ByteLen(node.text) = max_chunk_size
    /\ Len(node.children) >= 5

\* the lengths, in atoms, of the prefixes of a sequence of texts
PrefixLens(texts) == {Len(Flatten(SubSeq(texts, 1, i))) : i \in 0..Len(texts)}

ChildTexts(n) == [i \in 1..Len(n.children) |-> n.children[i].text]

\* C6: when an oversize node was packed, the chunks in order are the texts of
\* its children in order, and every chunk starts and ends between two
\* children: each child's text lies whole in exactly one chunk.
C6_ChildrenWhole ==
    (pc = "returned" /\ ByteLen(node.text) > max_chunk_size) =>
        /\ Flatten(Contents(chunks)) = Flatten(ChildTexts(node))
        /\ PrefixLens(Contents(chunks)) \subseteq PrefixLens(ChildTexts(node))

C6_Witness ==
    /\ pc = "returned"
    /\ ByteLen(node.text) > max_chunk_size
    /\ Len(chunks) >= 3
    /\ \E i \in 1..Len(node.children), k \in 1..Len(chunks) :
        /\ ByteLen(node.children[i].text) > max_chunk_size
        /\ chunks[k].content = node.children[i].text

\* C7: no chunk returned by the packer is empty.
C7_NoEmptyChunk ==
    pc = "returned" => \A k \in 1..Len(chunks) : chunks[k].content # <<>>

C7_Witness ==
    /\ pc = "returned"
    /\ max_chunk_size = 0
    /\ Len(chunks) >= 4
    /\ \E i \in 1..Len(node.children) : node.children[i].text = <<>>

\* the non-empty children whose text lies in chunk k, the chunks being the
\* children's texts cut at places between two children
NonEmptyChildrenIn(n, cs, k) ==
    LET from == Len(Flatten(SubSeq(Contents(cs), 1, k - 1)))
        to == Len(Flatten(SubSeq(Contents(cs), 1, k)))
    IN  {i \in 1..Len(n.children) :
            /\ ByteLen(n.children[i].text) > 0
            /\ from <= Len(Flatten(SubSeq(ChildTexts(n), 1, i - 1)))
            /\ Len(Flatten(SubSeq(ChildTexts(n), 1, i))) <= to}

\* C24: when an oversize node was packed, a chunk longer than max_chunk_size
\* is the text of one child, and a chunk that holds two or more non-empty
\* children is at most max_chunk_size long.
C24_OverBudgetOnlyAlone ==
    (pc = "returned" /\ ByteLen(node.text) > max_chunk_size) =>
        \A k \in 1..Len(chunks) :
            /\ ByteLen(chunks[k].content) > max_chunk_size =>
                   /\ \E i \in 1..Len(node.children) :
                          chunks[k].content = node.children[i].text
                   /\ Cardinality(NonEmptyChildrenIn(node, chunks, k)) = 1
            /\ Cardinality(NonEmptyChildrenIn(node, chunks, k)) >= 2 =>
                   ByteLen(chunks[k].content) <= max_chunk_size

C24_Witness ==
    /\ pc = "returned"
    /\ ByteLen(node.text) > max_chunk_size
    /\ \E k \in 1..Len(chunks) :
           /\ ByteLen(chunks[k].content) > max_chunk_size
           /\ Cardinality(NonEmptyChildrenIn(node, chunks, k)) = 1
    /\ \E k \in 1..Len(chunks) :
           /\ Cardinality(NonEmptyChildrenIn(node, chunks, k)) >= 2
           /\ ByteLen(chunks[k].content) = max_chunk_size

\* the text of the node that lies between its children
HasGaps(n) == n.text # Flatten(ChildTexts(n))

\* C27: when an oversize node was packed, the chunks read in order are the
\* texts of the node's direct children read in source order, so that the
\* text between the children is in no chunk; a node without children gives
\* no chunk.
C27_ChunksAreChildren ==
    /\ (pc = "returned" /\ ByteLen(node.text) > max_chunk_size) =>
           /\ Flatten(Contents(chunks)) = Flatten(ChildTexts(node))
           /\ HasGaps(node) => Flatten(Contents(chunks)) # node.text
    /\ SplitNode(Leaf("identifier", <<"long_name">>), 0) = <<>>

C27_Witness ==
    /\ pc = "returned"
    /\ ByteLen(node.text) > max_chunk_size
    /\ HasGaps(node)
    /\ Len(chunks) >= 2
    /\ ByteLen(Flatten(Contents(chunks))) < ByteLen(node.text)

-----------------------------------------------------------------------------
(* split_javascript, one loop iteration at a time *)

JsMethod(name) ==
    Tree("method_definition",
         <<WithField("name", Leaf("property_identifier", <<name>>)),
           WithField("parameters", Leaf("formal_parameters", <<"()">>)), Gap(<<" ">>),
           WithField("body", Leaf("statement_block", <<"{}">>))>>)

JsClass(name, methods) ==
    Tree("class_declaration",
         <<Tok("class"), Gap(<<" ">>),
           WithField("name", Leaf("identifier", <<name>>)), Gap(<<" ">>),
           WithField("body",
               Tree("class_body",
                    <<Tok("{"), Gap(<<NL>>)>>
                    \o Flatten([j \in 1..Len(methods) |->
                           <<Gap(<<"  ">>), methods[j], Gap(<<NL>>)>>])
                    \o <<Tok("}")>>))>>)

\* top-level children of a JavaScript program: the i-th is named ItemNames[i]
JsItemShapes ==
    {"function", "class", "class_empty", "method", "import", "export", "var",
     "let", "call", "comment"}

JsItem(shape, i) ==
    CASE shape = "function" ->
            Tree("function_declaration",
                 <<Tok("function"), Gap(<<" ">>),
                   WithField("name", Leaf("identifier", <<ItemNames[i]>>)),
                   WithField("parameters", Leaf("formal_parameters", <<"()">>)),
                   Gap(<<" ">>),
                   WithField("body", Leaf("statement_block", <<"{}">>))>>)
      [] shape = "class" ->
            JsClass(ItemNames[i], <<JsMethod(MemberNames[1]), JsMethod(MemberNames[2])>>)
      [] shape = "class_empty" -> JsClass(ItemNames[i], <<>>)
      [] shape = "method" -> JsMethod(ItemNames[i])
      [] shape = "import" ->
            Tree("import_statement",
                 <<Tok("import"), Gap(<<" ">>),
                   WithField("source", Leaf("string", <<"'", ItemNames[i], "'">>)),
                   Tok(";")>>)
      [] shape = "export" ->
            Tree("export_statement",
                 <<Tok("export"), Gap(<<" ">>), Tok("default"), Gap(<<" ">>),
                   WithField("value", Leaf("identifier", <<ItemNames[i]>>)), Tok(";")>>)
      [] shape = "var" ->
            Tree("variable_declaration",
                 <<Tok("var"), Gap(<<" ">>),
                   Leaf("variable_declarator", <<ItemNames[i]>>), Tok(";")>>)
      [] shape = "let" ->
            Tree("lexical_declaration",
                 <<Tok("let"), Gap(<<" ">>),
                   Leaf("variable_declarator", <<ItemNames[i]>>), Tok(";")>>)
      [] shape = "call" ->
            Tree("expression_statement",
                 <<Leaf("call_expression", <<ItemNames[i], "()">>), Tok(";")>>)
      [] shape = "comment" -> Leaf("comment", <<"//", ItemNames[i]>>)

JsRoots(n) ==
    UNION {{SourceFile("program", [i \in 1..k |-> JsItem(shapes[i], i)])
              : shapes \in [1..k -> JsItemShapes]}
           : k \in 0..n}

JsInitState ==
    /\ language = "javascript" /\ max_chunk_size = DefaultMaxChunkSize
    /\ docs = <<>> /\ doc_idx = 0 /\ split_docs = <<>> /\ result = "running"
    /\ NoWalk /\ NoImpl /\ NoProvider
    /\ node \in JsRoots(MaxChildren)
    /\ pc = "split_javascript"

JsAcc == [chunks |-> chunks, context |-> context]

SetJsAcc(acc) ==
    /\ chunks' = acc.chunks
    /\ context' = acc.context

JsDeclaration ==
    /\ pc = "split_javascript" /\ HasChild /\ JsArmOf(Child, node) = "declaration"
    /\ SetJsAcc(JsDeclarationArm(JsAcc, Child))
    /\ pos' = pos + 1
    /\ UNCHANGED <<coreVars, driverVars, implVars, node, current_doc_comments, current_chunk, pc>>

JsMethodDefinition ==
    /\ pc = "split_javascript" /\ HasChild /\ JsArmOf(Child, node) = "method"
    /\ SetJsAcc(JsMethodArm(JsAcc, Child, node, NoNode))
    /\ pos' = pos + 1
    /\ UNCHANGED <<coreVars, driverVars, implVars, node, current_doc_comments, current_chunk, pc>>

JsContextItem ==
    /\ pc = "split_javascript" /\ HasChild /\ JsArmOf(Child, node) = "context"
    /\ SetJsAcc(JsContextArm(JsAcc, Child))
    /\ pos' = pos + 1
    /\ UNCHANGED <<coreVars, driverVars, implVars, node, current_doc_comments, current_chunk, pc>>

JsOther ==
    /\ pc = "split_javascript" /\ HasChild /\ JsArmOf(Child, node) = "other"
    /\ pos' = pos + 1
    /\ UNCHANGED <<coreVars, driverVars, implVars, node, chunks, context, current_doc_comments,
                   current_chunk, pc>>

JsReturn ==
    /\ pc = "split_javascript" /\ ~HasChild
    /\ pc' = "returned"
    /\ UNCHANGED <<coreVars, driverVars, walkVars, implVars>>

JsNext ==
    \/ JsDeclaration \/ JsMethodDefinition \/ JsContextItem \/ JsOther \/ JsReturn

SpecJs == JsInitState /\ [][JsNext]_vars

\* the methods directly inside the body of a class declaration
ClassMethods(class) ==
    Flatten([i \in 1..Len(NamedChildren(class)) |->
        IF NamedChildren(class)[i].kind = "class_body"
        THEN SelectSeq(NamedChildren(NamedChildren(class)[i]),
                       LAMBDA m : m.kind = "method_definition")
        ELSE <<>>])

\* C10: when split_javascript has returned, every method directly inside the
\* body of a top-level class declaration has a chunk `class <Name> {\n<method
\* text>\n}` of its own, <Name> being the class's first identifier child.
C10_MethodChunks ==
    pc = "returned" =>
        \A i \in 1..Len(NamedChildren(node)) :
            NamedChildren(node)[i].kind = "class_declaration" =>
                \A j \in 1..Len(ClassMethods(NamedChildren(node)[i])) :
                    \E k \in 1..Len(chunks) :
                        chunks[k].content =
                            <<"class", " ">>
                            \o ChildByFieldName(NamedChildren(node)[i], "name").text
                            \o <<" ", "{", NL>>
                            \o ClassMethods(NamedChildren(node)[i])[j].text
                            \o <<NL, "}">>

\* the texts of the context nodes among a root's top-level children
ContextNodeKinds ==
    {"attribute_item", "use_declaration", "mod_item",
     "import_statement", "export_statement", "variable_declaration"}

\* C8: a context fragment is prepended to at most one chunk: the text of a
\* context node consumed by the walk lies in at most one of the chunks.
C8_ContextInOneChunk ==
    \A i \in 1..pos :
        NamedChildren(node)[i].kind \in ContextNodeKinds =>
            Cardinality({k \in 1..Len(chunks) :
                Contains(chunks[k].content, NamedChildren(node)[i].text)}) <= 1

\* the positions, in source order, of the first n top-level children that
\* make a chunk
JsChunkPositions(root, n) ==
    SelectSeq([i \in 1..n |-> i], LAMBDA i :
        NamedChildren(root)[i].kind \in
            {"function_declaration", "class_declaration", "method_definition"})

\* the texts of the import statements, export statements and top-level
\* variable declarations before child i, each followed by a newline
JsContextBefore(root, i) ==
    Flatten([j \in 1..(i - 1) |->
        IF NamedChildren(root)[j].kind \in
               {"import_statement", "export_statement", "variable_declaration"}
        THEN NamedChildren(root)[j].text \o <<NL>>
        ELSE <<>>])

\* C11: the chunks made so far are, in source order, one for each top-level
\* child consumed that makes a chunk, and the chunk of a top-level function
\* or class declaration is the text of every import statement, export
\* statement and top-level variable declaration before it, each followed by
\* a newline, in source order, immediately followed by the declaration's text.
C11_JsDeclarationChunk ==
    LET at == JsChunkPositions(node, pos)
    IN  /\ Len(chunks) = Len(at)
        /\ \A k \in 1..Len(at) :
               NamedChildren(node)[at[k]].kind \in
                   {"function_declaration", "class_declaration"} =>
                   chunks[k].content =
                       JsContextBefore(node, at[k]) \o NamedChildren(node)[at[k]].text

C11_Witness ==
    /\ pc = "returned"
    /\ Len(NamedChildren(node)) = 3
    /\ NamedChildren(node)[1].kind = "variable_declaration"
    /\ NamedChildren(node)[2].kind = "class_declaration"
    /\ NamedChildren(node)[3].kind = "function_declaration"
    /\ Len(chunks) = 2
    /\ IsPrefix(NamedChildren(node)[1].text \o <<NL>>, chunks[2].content)

-----------------------------------------------------------------------------
(* Splitter::split on a batch of documents *)

RustFile(shapes) == SourceFile("source_file", [i \in 1..Len(shapes) |-> Item(shapes[i], i)])
JsFile(shapes) == SourceFile("program", [i \in 1..Len(shapes) |-> JsItem(shapes[i], i)])

PyImport ==
    Tree("import_statement", <<Tok("import"), Gap(<<" ">>), Leaf("dotted_name", <<"os">>)>>)

PyFile(items) == SourceFile("module", items)

\* the trees of the documents of a batch, by language
SampleTrees(lang) ==
    CASE lang = "python" ->
            {PyFile(<<>>),
             PyFile(<<PyImport>>),
             PyFile(<<PyImport,
                      PyDefinition([kind |-> "function_definition", name |-> <<"f">>,
                                    colon |-> TRUE, comment |-> FALSE,
                                    body |-> <<"pass">>]),
                      PyDefinition([kind |-> "class_definition", name |-> <<"long_name">>,
                                    colon |-> TRUE, comment |-> TRUE,
                                    body |-> <<"x", NL, "    ", "y">>])>>),
             PyFile(<<PyDefinition([kind |-> "function_definition",
                                    name |-> <<"long_name">>, colon |-> FALSE,
                                    comment |-> FALSE, body |-> <<"return", " ", "1">>]),
                      PyImport>>)}
      [] lang = "javascript" ->
            {JsFile(<<>>),
             JsFile(<<"import", "class", "function">>),
             JsFile(<<"comment", "function", "function", "var">>),
             JsFile(<<"export", "let">>),
             JsFile(<<"class_empty", "call", "method", "import">>)}
      [] OTHER ->
            {RustFile(<<>>),
             RustFile(<<"doc", "pub_struct", "impl_two">>),
             RustFile(<<"line", "fn", "impl_empty", "use">>),
             RustFile(<<"attr", "doc">>),
             RustFile(<<"struct", "impl_trait", "fn", "attr">>)}

Metadatas == {EmptyMetadata, {<<"path", "a">>, <<"lang", "x">>}}

\* a document with declarations, by language
FaultySample(lang) ==
    CASE lang = "python" ->
            PyFile(<<PyImport,
                     PyDefinition([kind |-> "function_definition", name |-> <<"f">>,
                                   colon |-> TRUE, comment |-> FALSE,
                                   body |-> <<"pass">>])>>)
      [] lang = "javascript" -> JsFile(<<"import", "function">>)
      [] OTHER -> RustFile(<<"use", "struct">>)

\* the documents the parser gives no tree for, and the documents whose node
\* text does not decode
FaultyDocs(lang) ==
    {[content |-> FaultySample(lang).text, metadata |-> EmptyMetadata,
      tree |-> NoNode, valid_text |-> TRUE],
     [content |-> FaultySample(lang).text, metadata |-> EmptyMetadata,
      tree |-> FaultySample(lang), valid_text |-> FALSE]}

InputDocs(lang) ==
    {[content |-> t.text, metadata |-> m, tree |-> t, valid_text |-> TRUE] :
        t \in SampleTrees(lang), m \in Metadatas}
    \cup FaultyDocs(lang)

Batches(lang) == UNION {[1..k -> InputDocs(lang)] : k \in 0..MaxDocs}

Languages == SupportedLanguages \cup {"go"}

\* a CodeSplitter as built; no split call is running
Init ==
    /\ language \in Languages
    /\ max_chunk_size \in {MaxSize, DefaultMaxChunkSize}
    /\ docs = <<>> /\ doc_idx = 0 /\ split_docs = <<>> /\ result = "running"
    /\ node = NoNode
    /\ NoWalk /\ NoImpl /\ NoProvider
    /\ pc = "idle"

\* split(docs) is called
SplitCall ==
    /\ pc = "idle"
    /\ docs' \in Batches(language)
    /\ doc_idx' = 0 /\ split_docs' = <<>> /\ result' = "running"
    /\ pc' = "get_language"
    /\ UNCHANGED <<coreVars, language, max_chunk_size, walkVars, implVars>>

\* self.get_language()? fails
GetLanguageErr ==
    /\ pc = "get_language" /\ language \notin SupportedLanguages
    /\ result' = "err"
    /\ pc' = "done"
    /\ UNCHANGED <<coreVars, language, max_chunk_size, docs, doc_idx, split_docs, walkVars,
                   implVars>>

\* self.get_language()? and parser.set_language succeed
GetLanguageOk ==
    /\ pc = "get_language" /\ language \in SupportedLanguages
    /\ pc' = "for_doc"
    /\ UNCHANGED <<coreVars, driverVars, walkVars, implVars>>

\* parser.parse gives None: ok_or_else(..)? returns the error
ParseErr ==
    /\ pc = "for_doc" /\ doc_idx < Len(docs)
    /\ Parse(docs[doc_idx + 1]) = NoNode
    /\ doc_idx' = ErrReturn([doc_idx |-> doc_idx, split_docs |-> split_docs]).doc_idx
    /\ split_docs' = ErrReturn([doc_idx |-> doc_idx, split_docs |-> split_docs]).split_docs
    /\ result' = "err"
    /\ pc' = "done"
    /\ UNCHANGED <<coreVars, language, max_chunk_size, docs, walkVars, implVars>>

\* the extractor gives Err: the `?` after the match returns the error
ExtractErr ==
    /\ pc = "for_doc" /\ doc_idx < Len(docs)
    /\ Parse(docs[doc_idx + 1]) # NoNode
    /\ ExtractFails(docs[doc_idx + 1], language)
    /\ doc_idx' = ErrReturn([doc_idx |-> doc_idx, split_docs |-> split_docs]).doc_idx
    /\ split_docs' = ErrReturn([doc_idx |-> doc_idx, split_docs |-> split_docs]).split_docs
    /\ result' = "err"
    /\ pc' = "done"
    /\ UNCHANGED <<coreVars, language, max_chunk_size, docs, walkVars, implVars>>

\* one iteration of `for doc in docs`
SplitDoc ==
    /\ pc = "for_doc" /\ doc_idx < Len(docs)
    /\ Parse(docs[doc_idx + 1]) # NoNode
    /\ ~ExtractFails(docs[doc_idx + 1], language)
    /\ split_docs' = ExtendDocs(split_docs,
                                DocChunks(docs[doc_idx + 1], language, max_chunk_size))
    /\ doc_idx' = doc_idx + 1
    /\ UNCHANGED <<coreVars, language, max_chunk_size, docs, result, walkVars, implVars, pc>>

\* Ok(split_docs)
SplitReturn ==
    /\ pc = "for_doc" /\ doc_idx = Len(docs)
    /\ result' = "ok"
    /\ pc' = "done"
    /\ UNCHANGED <<coreVars, language, max_chunk_size, docs, doc_idx, split_docs, walkVars,
                   implVars>>

\* the caller takes the result; the splitter is ready for the next call
ResultTaken ==
    /\ pc = "done"
    /\ docs' = <<>> /\ doc_idx' = 0 /\ split_docs' = <<>> /\ result' = "running"
    /\ pc' = "idle"
    /\ UNCHANGED <<coreVars, language, max_chunk_size, walkVars, implVars>>

Next ==
    \/ SplitCall \/ GetLanguageErr \/ GetLanguageOk
    \/ ParseErr \/ ExtractErr
    \/ SplitDoc \/ SplitReturn \/ ResultTaken

Spec == Init /\ [][Next]_vars

\* C4: every document of split's output has empty metadata.
C4_EmptyMetadata ==
    \A k \in 1..Len(split_docs) : split_docs[k].metadata = EmptyMetadata

C4_Witness ==
    /\ result = "ok"
    /\ language = "python"
    /\ Len(split_docs) >= 4
    /\ \A d \in 1..Len(docs) : docs[d].metadata # EmptyMetadata

\* the texts of the declarations and members of a document that yield a chunk
DeclarationTexts(lang, root) ==
    IF lang = "rust"
    THEN ChunkedItemTexts(NamedChildren(root))
    ELSE LET ds == SelectSeq(NamedChildren(root), LAMBDA c :
                       c.kind \in {"function_declaration", "class_declaration",
                                   "method_definition"})
         IN  [i \in 1..Len(ds) |-> ds[i].text]

\* child i of the root is a context node
IsContextNode(lang, root, i) ==
    LET c == NamedChildren(root)[i]
    IN  \/ c.kind \in ContextNodeKinds
        \/ lang = "rust" /\ c.kind = "line_comment" /\ c.text[1] = "///"

\* child i of the root is a context node after the document's last declaration
IsTrailingContext(lang, root, i) ==
    /\ IsContextNode(lang, root, i)
    /\ DeclarationTexts(lang,
           [root EXCEPT !.children =
               SubSeq(NamedChildren(root), i + 1, Len(NamedChildren(root)))]) = <<>>

\* C9: in a Rust or JavaScript batch, the chunks made so far are, in order,
\* one for each declaration or member of the documents consumed, each holding
\* that declaration's text (context nodes make no chunk of their own), and
\* the text of a context node that follows the last declaration of its
\* document is in no chunk of the output, in this call and in later calls.
C9_ContextNeverAlone ==
    language \in {"rust", "javascript"} =>
        LET items == Flatten([d \in 1..doc_idx |->
                         DeclarationTexts(language, docs[d].tree)])
        IN  /\ Len(split_docs) = Len(items)
            /\ \A j \in 1..Len(items) : Contains(split_docs[j].content, items[j])
            /\ \A d \in 1..doc_idx :
                \A i \in 1..Len(NamedChildren(docs[d].tree)) :
                    IsTrailingContext(language, docs[d].tree, i) =>
                        \A k \in 1..Len(split_docs) :
                            ~Contains(split_docs[k].content,
                                      NamedChildren(docs[d].tree)[i].text)

C9_Witness ==
    /\ result = "ok"
    /\ language = "rust"
    /\ Len(docs) = 2
    /\ docs[1].tree = RustFile(<<"line", "fn", "impl_empty", "use">>)
    /\ docs[2].tree = RustFile(<<"doc", "pub_struct", "impl_two">>)
    /\ Len(split_docs) = 4

\* C12: a split call of a splitter whose language identifier is none of
\* "rust", "python" and "javascript" ends with an error and hands no document
\* to its caller, whatever the batch, the empty batch included.
C12_UnsupportedLanguage ==
    (pc = "done" /\ language \notin {"rust", "python", "javascript"}) =>
        /\ result = "err"
        /\ split_docs = <<>>

C12_Witness ==
    /\ pc = "done"
    /\ language = "go"
    /\ docs = <<>>
    /\ result = "err"

\* C13 as stated: a split call of a splitter whose language identifier has no
\* extractor of its own ends with the chunks split_node makes of the root of
\* each document of the batch, in order.
C13_FallbackOnRoot ==
    (pc = "done" /\ language \notin {"rust", "python", "javascript"}) =>
        /\ result = "ok"
        /\ split_docs =
               Flatten([d \in 1..Len(docs) |->
                   SplitNode(docs[d].tree, max_chunk_size)])

\* C13, amended: with a language identifier that has no extractor of its own
\* the loop over the documents is never entered: no document is parsed, no
\* root node is chunked, and the call ends with the error of get_language.
C13_FallbackNeverReached ==
    language \notin {"rust", "python", "javascript"} =>
        /\ pc # "for_doc"
        /\ doc_idx = 0
        /\ split_docs = <<>>
        /\ result # "ok"

C13_Witness ==
    /\ pc = "done"
    /\ language = "go"
    /\ Len(docs) = 2
    /\ \A d \in 1..2 : NamedChildren(docs[d].tree) # <<>> /\ docs[d].valid_text
    /\ result = "err"

\* the document cannot be processed: the parser gives no tree for it or the
\* extractor fails on the text of its nodes
DocFails(doc, lang) ==
    \/ doc.tree = NoNode
    \/ /\ ~doc.valid_text
       /\ \E i \in 1..Len(NamedChildren(doc.tree)) :
              \/ NamedChildren(doc.tree)[i].kind \in ContextNodeKinds
              \/ DeclarationTexts(lang,
                     [doc.tree EXCEPT !.children = <<NamedChildren(doc.tree)[i]>>]) # <<>>
              \/ NamedChildren(doc.tree)[i].kind \in
                     {"function_definition", "class_definition", "impl_item"}

\* C14: a split call on a batch in which parsing or text extraction fails for
\* some document ends with an error and hands no chunk to its caller, not
\* even the chunks of the documents before the failing one.
C14_NoPartialResult ==
    (pc = "done" /\ language \in {"rust", "python", "javascript"}
        /\ \E d \in 1..Len(docs) : DocFails(docs[d], language)) =>
        /\ result = "err"
        /\ split_docs = <<>>

C14_Witness ==
    /\ pc = "done"
    /\ language = "javascript"
    /\ Len(docs) = 2
    /\ ~DocFails(docs[1], language)
    /\ Len(SplitJavascript(docs[1].tree)) = 2
    /\ DocFails(docs[2], language)
    /\ docs[2].tree # NoNode
    /\ result = "err"
    /\ split_docs = <<>>

\* the text a Python definition contributes to the output: its own text when
\* it fits the budget, the texts of its children otherwise
PyChunkedText(def, max) ==
    IF ByteLen(def.text) <= max THEN def.text ELSE Flatten(ChildTexts(def))

\* the number of chunks the documents before document d contribute
ChunksBefore(lang, ds, d) ==
    Len(Flatten([e \in 1..(d - 1) |-> DeclarationTexts(lang, ds[e].tree)]))

\* C15: the chunks of the documents consumed so far lie in the output in the
\* order of the documents, the chunks of a document after all chunks of the
\* documents before it, and the chunks of one document follow the source
\* order of its declarations and members: the chunk at place j of a
\* document's range holds the j-th of the document's declarations and impl
\* members in source order, so that the member chunks of an impl block lie
\* between the chunks of the declarations around it.  For Python, whose
\* definitions may be packed into several chunks, the chunks read in order
\* are the definitions' texts in document and source order.
C15_OutputOrder ==
    /\ language \in {"rust", "javascript"} =>
           \A d \in 1..doc_idx :
               LET own == DeclarationTexts(language, docs[d].tree)
                   base == ChunksBefore(language, docs, d)
               IN  /\ base + Len(own) <= Len(split_docs)
                   /\ \A j \in 1..Len(own) :
                          Contains(split_docs[base + j].content, own[j])
    /\ language = "python" =>
           Flatten(Contents(split_docs)) =
               Flatten([d \in 1..doc_idx |->
                   LET defs == SelectSeq(NamedChildren(docs[d].tree), LAMBDA c :
                                   c.kind \in {"function_definition", "class_definition"})
                   IN  Flatten([i \in 1..Len(defs) |->
                           PyChunkedText(defs[i], max_chunk_size)])])

C15_Witness ==
    /\ result = "ok"
    /\ language = "rust"
    /\ Len(docs) = 2
    /\ docs[1].tree = RustFile(<<"doc", "pub_struct", "impl_two">>)
    /\ docs[2].tree = RustFile(<<"struct", "impl_trait", "fn", "attr">>)
    /\ Len(split_docs) = 6
    /\ Contains(split_docs[4].content, NamedChildren(docs[2].tree)[1].text)
    /\ Contains(split_docs[5].content, <<"impl", "<T>", " ", "P", " for ">>)
    /\ Contains(split_docs[6].content, NamedChildren(docs[2].tree)[3].text)

-----------------------------------------------------------------------------
(* ToolProvider: a registry of tools by name, and execute, which runs the  *)
(* tool a ToolUse names.  A serde_json Value is a record of its type and    *)
(* its payload; a Result is a record with ok |-> TRUE and the value, or     *)
(* ok |-> FALSE and the error.                                              *)

JsonNull == [type |-> "null", key |-> "", value |-> ""]
JsonNumber(digits) == [type |-> "number", key |-> "", value |-> digits]
JsonString(str) == [type |-> "string", key |-> "", value |-> str]
JsonObject(k, str) == [type |-> "object", key |-> k, value |-> str]

\* Value::to_string: the compact JSON text of the value
ValueToString(v) ==
    CASE v.type = "null" -> "null"
      [] v.type = "number" -> v.value
      [] v.type = "string" -> "\"" \o v.value \o "\""
      [] OTHER -> "{\"" \o v.key \o "\":\"" \o v.value \o "\"}"

Ok(v) == [ok |-> TRUE, value |-> v]
Err(e) == [ok |-> FALSE, value |-> e]

\* implementations of the Tool trait: EchoTool of the tests, a tool with a
\* fixed answer and a tool whose execute fails
ToolKinds == {"echo", "fixed", "failing"}

ToolNames == {"echo", "calc"}

Tools == [name : ToolNames, kind : ToolKinds]

\* Tool::execute(&self, input)
ToolExecute(tool, input) ==
    CASE tool.kind = "echo" -> Ok(ValueToString(input))
      [] tool.kind = "fixed" -> Ok("done")
      [] OTHER -> Err("tool failed")

ToolUses ==
    [id : {"1", "2"},
     tool : ToolNames \cup {"search"},
     input : {JsonNull, JsonNumber("7"), JsonString("echo"),
              JsonObject("message", "Hello")}]

\* self.0.insert(tool.name().to_string(), Arc::new(tool))
Insert(map, tool) ==
    [n \in DOMAIN map \cup {tool.name} |-> IF n = tool.name THEN tool ELSE map[n]]

\* variant: the result carries the name of the tool in place of the id
ToolResultWithToolName(use, content) == [id |-> use.tool, content |-> content]

\* ToolResult { id: tool_use.id.clone(), content: result }
ToolResultOf(use, content) == [id |-> use.id, content |-> content]

\* ToolProvider::new()
ProviderInit ==
    /\ Idle /\ NoWalk /\ NoImpl
    /\ node = NoNode
    /\ NoProvider
    /\ pc = "provider"

\* provider.register(tool)
Register ==
    /\ pc = "provider"
    /\ \E tool \in Tools : tools' = Insert(tools, tool)
    /\ UNCHANGED <<driverVars, walkVars, implVars, memoryVars, extendVars, tool_use, tool_output, tool_result,
                   invocations, pc>>

\* provider.execute(&tool_use) is called
ExecuteCall ==
    /\ pc = "provider"
    /\ tool_use' \in ToolUses
    /\ pc' = "execute"
    /\ UNCHANGED <<driverVars, walkVars, implVars, memoryVars, extendVars, tools, tool_output, tool_result,
                   invocations>>

\* self.0.get(&tool_use.tool) gives None: bail!
ExecuteNotFound ==
    /\ pc = "execute"
    /\ tool_use.tool \notin DOMAIN tools
    /\ tool_result' = Err("Tool not found: " \o tool_use.tool)
    /\ pc' = "executed"
    /\ UNCHANGED <<driverVars, walkVars, implVars, memoryVars, extendVars, tools, tool_use, tool_output,
                   invocations>>

\* tool.execute(tool_use.input.clone()).await
ExecuteTool ==
    /\ pc = "execute"
    /\ tool_use.tool \in DOMAIN tools
    /\ invocations' = Append(invocations,
                             [tool |-> tools[tool_use.tool], input |-> tool_use.input])
    /\ tool_output' = ToolExecute(tools[tool_use.tool], tool_use.input)
    /\ pc' = "awaited"
    /\ UNCHANGED <<driverVars, walkVars, implVars, memoryVars, extendVars, tools, tool_use, tool_result>>

\* the tool's execute gave Err: `?` returns it
ExecuteToolErr ==
    /\ pc = "awaited"
    /\ ~tool_output.ok
    /\ tool_result' = tool_output
    /\ pc' = "executed"
    /\ UNCHANGED <<driverVars, walkVars, implVars, memoryVars, extendVars, tools, tool_use, tool_output,
                   invocations>>

\* Ok(ToolResult { .. })
ExecuteOk ==
    /\ pc = "awaited"
    /\ tool_output.ok
    /\ tool_result' = Ok(ToolResultOf(tool_use, tool_output.value))
    /\ pc' = "executed"
    /\ UNCHANGED <<driverVars, walkVars, implVars, memoryVars, extendVars, tools, tool_use, tool_output,
                   invocations>>

\* the caller takes the result; the provider is ready for the next call
ExecuteTaken ==
    /\ pc = "executed"
    /\ tool_use' = <<>> /\ tool_output' = <<>> /\ tool_result' = <<>>
    /\ invocations' = <<>>
    /\ pc' = "provider"
    /\ UNCHANGED <<driverVars, walkVars, implVars, memoryVars, extendVars, tools>>

ProviderNext ==
    \/ Register \/ ExecuteCall \/ ExecuteNotFound \/ ExecuteTool
    \/ ExecuteToolErr \/ ExecuteOk \/ ExecuteTaken

SpecProvider == ProviderInit /\ [][ProviderNext]_vars

-----------------------------------------------------------------------------
(* Relations between the outputs of split on related inputs *)

\* the extractor of the language has no arm for the top-level node
IsUnrecognized(lang, c) ==
    CASE lang = "rust" ->
            /\ c.kind \notin StandaloneItemKinds
                    \cup {"impl_item", "attribute_item", "use_declaration", "mod_item"}
            /\ ~(c.kind = "line_comment" /\ c.text[1] = "///")
      [] lang = "python" ->
            c.kind \notin {"function_definition", "class_definition"}
      [] OTHER ->
            c.kind \notin {"function_declaration", "class_declaration",
                           "method_definition", "import_statement",
                           "export_statement", "variable_declaration"}

\* the sequence without its i-th element
RemoveAt(seq, i) == SubSeq(seq, 1, i - 1) \o SubSeq(seq, i + 1, Len(seq))

\* the document's tree without its i-th top-level child
WithoutChild(root, i) == SourceFile(root.kind, RemoveAt(NamedChildren(root), i))

\* C22: the chunks made of the documents consumed so far are the chunks the
\* extractor makes when any one top-level node it does not recognize is
\* removed from its document.
C22_UnrecognizedIsNoOp ==
    \A d \in 1..doc_idx :
        \A i \in 1..Len(NamedChildren(docs[d].tree)) :
            IsUnrecognized(language, NamedChildren(docs[d].tree)[i]) =>
                split_docs =
                    Flatten([e \in 1..doc_idx |->
                        ChunksOf(language,
                                 IF e = d THEN WithoutChild(docs[e].tree, i)
                                 ELSE docs[e].tree,
                                 max_chunk_size)])

C22_Witness ==
    /\ result = "ok"
    /\ language = "javascript"
    /\ Len(docs) = 2
    /\ docs[1].tree = JsFile(<<"class_empty", "call", "method", "import">>)
    /\ docs[2].tree = JsFile(<<"comment", "function", "function", "var">>)
    /\ Len(split_docs) = 4

\* the greedy packing of a sequence of texts: a chunk is the longest run of
\* texts in which every text after the first non-empty one keeps the run
\* within the budget; a run without a byte makes no chunk
RECURSIVE GreedyPacking(_, _)
GreedyPacking(texts, max) ==
    IF texts = <<>> THEN <<>>
    ELSE LET Run(n) == Flatten(SubSeq(texts, 1, n))
             Joins(n) == \/ ByteLen(Run(n - 1)) = 0
                         \/ ByteLen(Run(n)) <= max
             n == CHOOSE m \in 1..Len(texts) :
                      /\ \A o \in 1..m : Joins(o)
                      /\ m = Len(texts) \/ ~Joins(m + 1)
         IN  (IF ByteLen(Run(n)) = 0 THEN <<>> ELSE <<Run(n)>>)
             \o GreedyPacking(SubSeq(texts, n + 1, Len(texts)), max)

\* the chunks of a Python definition
PyDefinitionChunks(def, max) ==
    IF ByteLen(def.text) <= max THEN <<def.text>>
    ELSE GreedyPacking(ChildTexts(def), max)

\* C23: in a Python batch the chunks made so far are, document by document
\* and in source order, those of the top-level function and class
\* definitions: the definition's text as one chunk when it is within
\* max_chunk_size, the greedy packing of its direct children otherwise;
\* no other top-level node adds anything.
C23_PythonDefinitions ==
    language = "python" =>
        Contents(split_docs) =
            Flatten([d \in 1..doc_idx |->
                LET defs == SelectSeq(NamedChildren(docs[d].tree), LAMBDA c :
                                c.kind \in {"function_definition", "class_definition"})
                IN  Flatten([i \in 1..Len(defs) |->
                        PyDefinitionChunks(defs[i], max_chunk_size)])])

C23_Witness ==
    /\ result = "ok"
    /\ language = "python"
    /\ max_chunk_size = MaxSize
    /\ Len(docs) = 1
    /\ Len(NamedChildren(docs[1].tree)) = 3
    /\ NamedChildren(docs[1].tree)[1].kind = "import_statement"
    /\ split_docs[1].content = NamedChildren(docs[1].tree)[2].text
    /\ Len(split_docs) >= 3

\* the values of max_chunk_size the outputs are compared for
Budgets == 0..MaxSize \cup {DefaultMaxChunkSize}

\* C25: in a Rust or JavaScript batch the chunks made so far are those the
\* extractor makes of the same documents under every other max_chunk_size,
\* and every declaration and member consumed lies whole in its chunk, also
\* when it is longer than max_chunk_size.
C25_BudgetIgnored ==
    language \in {"rust", "javascript"} =>
        /\ \A m \in Budgets :
               split_docs =
                   Flatten([d \in 1..doc_idx |-> ChunksOf(language, docs[d].tree, m)])
        /\ LET items == Flatten([d \in 1..doc_idx |->
                            DeclarationTexts(language, docs[d].tree)])
           IN  /\ Len(items) = Len(split_docs)
               /\ \A j \in 1..Len(items) :
                      ByteLen(items[j]) > max_chunk_size =>
                          /\ Contains(split_docs[j].content, items[j])
                          /\ ByteLen(split_docs[j].content) > max_chunk_size

C25_Witness ==
    /\ result = "ok"
    /\ language = "rust"
    /\ max_chunk_size = MaxSize
    /\ Len(docs) = 1
    /\ Len(split_docs) = 3
    /\ \A k \in 1..3 : ByteLen(split_docs[k].content) > MaxSize

\* what split returns for a batch whose documents all can be processed
SplitOf(batch, lang, max) ==
    Flatten([d \in 1..Len(batch) |-> DocChunks(batch[d], lang, max)])

\* C26: when a split call has succeeded, its output is, for every way of
\* cutting the batch in two, the output for the first part followed by the
\* output for the second part.
C26_BatchConcatenation ==
    (pc = "done" /\ result = "ok") =>
        \A n \in 0..Len(docs) :
            split_docs =
                SplitOf(SubSeq(docs, 1, n), language, max_chunk_size)
                \o SplitOf(SubSeq(docs, n + 1, Len(docs)), language, max_chunk_size)

C26_Witness ==
    /\ pc = "done" /\ result = "ok"
    /\ language = "javascript"
    /\ Len(docs) = 2
    /\ docs[1] = docs[2]
    /\ Len(SplitOf(<<docs[1]>>, language, max_chunk_size)) = 2
    /\ Len(split_docs) = 4

-----------------------------------------------------------------------------
(* InMemoryMemory: a vector of messages behind an async mutex, called by    *)
(* concurrent tasks.  Every operation takes the mutex, works on the vector  *)
(* and gives the mutex back when its guard is dropped at the return.        *)

\* Message::default()
DefaultMessage ==
    [role |-> "", content |-> <<>>, metadata |-> "None", name |-> "None",
     id |-> "None", created_at |-> "None"]

\* Content::Text { text }
Text(t) == [type |-> "text", text |-> t]

Tasks == 1..MaxTasks

\* the texts of the messages a task adds
TaskTexts == <<<<"a1", "a2">>, <<"b1", "b2">>, <<"c1", "c2">>, <<"d1", "d2">>>>

\* the batches a task passes to add_messages
TaskBatches(t) ==
    {[i \in 1..k |-> [DefaultMessage EXCEPT !.role = "user",
                                            !.content = <<Text(TaskTexts[t][i])>>]]
        : k \in 0..Len(TaskTexts[t])}

\* the messages of the add_messages calls that wait for the mutex
RECURSIVE Waiting(_, _)
Waiting(ts, n) ==
    IF n = 0 THEN 0
    ELSE Waiting(ts, n - 1)
         + (IF ts[n].op = "add_messages" /\ ts[n].pc = "lock" THEN Len(ts[n].batch) ELSE 0)

IdleTask == [op |-> "none", pc |-> "idle", batch |-> <<>>, pushed |-> 0, result |-> <<>>]

\* variant: the mutex lets a task in while another holds it
CanLockAlways(holders) == TRUE

\* self.inner.lock().await completes: the mutex is free
CanLock(holders) == holders = {}

\* InMemoryMemory::new()
MemoryInit ==
    /\ Idle /\ NoWalk /\ NoImpl /\ NoTools /\ NoExtend
    /\ node = NoNode
    /\ inner = <<>> /\ lock = {} /\ effects = <<>>
    /\ tasks = [t \in Tasks |-> IdleTask]
    /\ pc = "memory"

\* a task calls add_messages(messages)
AddMessagesCall ==
    /\ pc = "memory"
    /\ \E t \in Tasks :
        /\ tasks[t].pc = "idle"
        /\ \E batch \in TaskBatches(t) :
            /\ Len(effects) + Waiting(tasks, MaxTasks) + Len(batch) <= MaxLog
            /\ tasks' = [tasks EXCEPT ![t] =
                             [IdleTask EXCEPT !.op = "add_messages", !.pc = "lock",
                                              !.batch = batch]]
    /\ UNCHANGED <<pc, driverVars, walkVars, implVars, toolVars, extendVars, inner, lock,
                   effects>>

\* a task calls messages()
MessagesCall ==
    /\ pc = "memory"
    /\ \E t \in Tasks :
        /\ tasks[t].pc = "idle"
        /\ tasks' = [tasks EXCEPT ![t] = [IdleTask EXCEPT !.op = "messages", !.pc = "lock"]]
    /\ UNCHANGED <<pc, driverVars, walkVars, implVars, toolVars, extendVars, inner, lock,
                   effects>>

\* a task calls clear()
ClearCall ==
    /\ pc = "memory"
    /\ \E t \in Tasks :
        /\ tasks[t].pc = "idle"
        /\ tasks' = [tasks EXCEPT ![t] = [IdleTask EXCEPT !.op = "clear", !.pc = "lock"]]
    /\ UNCHANGED <<pc, driverVars, walkVars, implVars, toolVars, extendVars, inner, lock,
                   effects>>

\* add_messages gets the mutex: from here on the batch is being added
AddMessagesLock ==
    /\ pc = "memory"
    /\ \E t \in Tasks :
        /\ tasks[t].op = "add_messages" /\ tasks[t].pc = "lock"
        /\ CanLock(lock)
        /\ lock' = lock \cup {t}
        /\ effects' = effects \o tasks[t].batch
        /\ tasks' = [tasks EXCEPT ![t].pc = "locked"]
    /\ UNCHANGED <<pc, driverVars, walkVars, implVars, toolVars, extendVars, inner>>

\* inner.extend(messages): the next message of the batch is pushed
AddMessagesPush ==
    /\ pc = "memory"
    /\ \E t \in Tasks :
        /\ tasks[t].op = "add_messages" /\ tasks[t].pc = "locked"
        /\ tasks[t].pushed < Len(tasks[t].batch)
        /\ inner' = Append(inner, tasks[t].batch[tasks[t].pushed + 1])
        /\ tasks' = [tasks EXCEPT ![t].pushed = @ + 1]
    /\ UNCHANGED <<pc, driverVars, walkVars, implVars, toolVars, extendVars, lock, effects>>

\* Ok(()): the guard is dropped
AddMessagesReturn ==
    /\ pc = "memory"
    /\ \E t \in Tasks :
        /\ tasks[t].op = "add_messages" /\ tasks[t].pc = "locked"
        /\ tasks[t].pushed = Len(tasks[t].batch)
        /\ lock' = lock \ {t}
        /\ tasks' = [tasks EXCEPT ![t] = IdleTask]
    /\ UNCHANGED <<pc, driverVars, walkVars, implVars, toolVars, extendVars, inner, effects>>

\* messages gets the mutex
MessagesLock ==
    /\ pc = "memory"
    /\ \E t \in Tasks :
        /\ tasks[t].op = "messages" /\ tasks[t].pc = "lock"
        /\ CanLock(lock)
        /\ lock' = lock \cup {t}
        /\ tasks' = [tasks EXCEPT ![t].pc = "locked"]
    /\ UNCHANGED <<pc, driverVars, walkVars, implVars, toolVars, extendVars, inner, effects>>

\* inner.clone()
MessagesClone ==
    /\ pc = "memory"
    /\ \E t \in Tasks :
        /\ tasks[t].op = "messages" /\ tasks[t].pc = "locked"
        /\ tasks' = [tasks EXCEPT ![t].result = inner, ![t].pc = "cloned"]
    /\ UNCHANGED <<pc, driverVars, walkVars, implVars, toolVars, extendVars, inner, lock,
                   effects>>

\* Ok(clone): the guard is dropped
MessagesReturn ==
    /\ pc = "memory"
    /\ \E t \in Tasks :
        /\ tasks[t].op = "messages" /\ tasks[t].pc = "cloned"
        /\ lock' = lock \ {t}
        /\ tasks' = [tasks EXCEPT ![t] = IdleTask]
    /\ UNCHANGED <<pc, driverVars, walkVars, implVars, toolVars, extendVars, inner, effects>>

\* clear gets the mutex
ClearLock ==
    /\ pc = "memory"
    /\ \E t \in Tasks :
        /\ tasks[t].op = "clear" /\ tasks[t].pc = "lock"
        /\ CanLock(lock)
        /\ lock' = lock \cup {t}
        /\ tasks' = [tasks EXCEPT ![t].pc = "locked"]
    /\ UNCHANGED <<pc, driverVars, walkVars, implVars, toolVars, extendVars, inner, effects>>

\* inner.clear()
ClearRun ==
    /\ pc = "memory"
    /\ \E t \in Tasks :
        /\ tasks[t].op = "clear" /\ tasks[t].pc = "locked"
        /\ inner' = <<>>
        /\ effects' = <<>>
        /\ tasks' = [tasks EXCEPT ![t].pc = "cleared"]
    /\ UNCHANGED <<pc, driverVars, walkVars, implVars, toolVars, extendVars, lock>>

\* Ok(()): the guard is dropped
ClearReturn ==
    /\ pc = "memory"
    /\ \E t \in Tasks :
        /\ tasks[t].op = "clear" /\ tasks[t].pc = "cleared"
        /\ lock' = lock \ {t}
        /\ tasks' = [tasks EXCEPT ![t] = IdleTask]
    /\ UNCHANGED <<pc, driverVars, walkVars, implVars, toolVars, extendVars, inner, effects>>

MemoryNext ==
    \/ AddMessagesCall \/ MessagesCall \/ ClearCall
    \/ AddMessagesLock \/ AddMessagesPush \/ AddMessagesReturn
    \/ MessagesLock \/ MessagesClone \/ MessagesReturn
    \/ ClearLock \/ ClearRun \/ ClearReturn

SpecMemory == MemoryInit /\ [][MemoryNext]_vars

\* C29: what messages() is about to return is the messages added since the
\* last clear, batch after batch in the order in which the add_messages
\* calls got the mutex, each batch whole and in its given order; the same
\* holds of the vector whenever no task holds the mutex, and at most one
\* task holds it.
C29_AtomicLog ==
    /\ \A t \in DOMAIN tasks :
           tasks[t].pc = "cloned" => tasks[t].result = effects
    /\ lock = {} => inner = effects
    /\ Cardinality(lock) <= 1

C29_Witness ==
    /\ pc = "memory"
    /\ tasks[1].pc = "cloned"
    /\ Len(tasks[1].result) = 3
    /\ tasks[1].result[1].content = <<Text("b1")>>
    /\ tasks[1].result[2].content = <<Text("b2")>>
    /\ tasks[1].result[3].content = <<Text("a1")>>
    /\ tasks[2].pc = "lock"

-----------------------------------------------------------------------------
(* Extend<StreamEventEnvelope<Vec<Content>>> for Vec<Message>: the events   *)
(* of a completion stream folded into the messages.  An index is a u64; it  *)
(* is modelled by the two 32-bit halves of its value hi * 2^32 + lo, so     *)
(* that the cast to usize is exact on both pointer widths.                  *)

PointerWidths == {32, 64}

Indices(max) == [hi : {0, 1}, lo : 0..max]

\* index as usize
AsUsize(index, width) == IF width = 64 THEN index ELSE [index EXCEPT !.hi = 0]

\* index < vec.len(), for an index after the cast
IndexBelow(index, len) == index.hi = 0 /\ index.lo < len

\* Content::ToolUse(ToolUse { id, tool, input })
ToolUseContent == [type |-> "tool_use", id |-> "1", tool |-> "echo", input |-> JsonNull]

\* StreamEvent::Start { index, model, role, inner }
Start(index, role) ==
    [kind |-> "Start", index |-> index, model |-> "m", role |-> role, inner |-> <<>>]

\* StreamEvent::Delta { index, inner }
Delta(index, content) == [kind |-> "Delta", index |-> index, inner |-> content]

\* StreamEvent::End { stop_reason }
End == [kind |-> "End", stop_reason |-> "end_turn"]

StreamEvents(index) ==
    {Start(index, "assistant"),
     Delta(index, <<Text("lo")>>),
     Delta(index, <<ToolUseContent, Text("a"), Text("b")>>),
     End}

\* StreamEventEnvelope { index, event }
Envelopes(max) ==
    UNION {{[index |-> index, event |-> event] : event \in StreamEvents(index)}
              : index \in Indices(max)}

RECURSIVE EnvelopeSeqs(_, _)
EnvelopeSeqs(max, n) ==
    IF n = 0 THEN {<<>>}
    ELSE LET shorter == EnvelopeSeqs(max, n - 1)
         IN shorter \cup {Append(s, e) : s \in shorter, e \in Envelopes(max)}

\* the vectors extend is called on
Vecs ==
    {<<>>,
     <<[DefaultMessage EXCEPT !.role = "user", !.content = <<Text("Hi")>>]>>,
     <<[DefaultMessage EXCEPT !.role = "user", !.content = <<Text("Hi")>>],
       [DefaultMessage EXCEPT !.role = "assistant", !.content = <<Text("Hel")>>]>>,
     <<[DefaultMessage EXCEPT !.role = "user", !.content = <<Text("Hi")>>],
       [DefaultMessage EXCEPT !.role = "assistant",
                              !.content = <<Text("Hel"), ToolUseContent>>]>>}

\* mut_get_or_insert: the vector afterwards and the place of the element
\* the returned reference points to
MutGetOrInsert(v, index, val) ==
    IF IndexBelow(index, Len(v))
    THEN [vec |-> v, at |-> index.lo + 1]
    ELSE [vec |-> Append(v, val), at |-> Len(v) + 1]

\* the body of `for content in inner`
PushContent(content, new) ==
    IF content # <<>> /\ content[Len(content)].type = "text"
    THEN IF new.type = "text"
         THEN [content EXCEPT ![Len(content)].text = @ \o new.text]
         ELSE Append(content, new)
    ELSE Append(content, new)

\* for content in inner { .. }
RECURSIVE DeltaContent(_, _)
DeltaContent(content, delta) ==
    IF delta = <<>> THEN content
    ELSE DeltaContent(PushContent(content, Head(delta)), Tail(delta))

\* self.extend(iter) is called
ExtendInit ==
    /\ Idle /\ NoWalk /\ NoImpl /\ NoTools /\ NoMemory
    /\ node = NoNode
    /\ pointer_width \in PointerWidths
    /\ vec \in Vecs
    /\ iter \in EnvelopeSeqs(MaxIndex, MaxEvents)
    /\ pc = "extend"

\* the next envelope is a Start
ExtendStart ==
    /\ pc = "extend" /\ iter # <<>>
    /\ Head(iter).event.kind = "Start"
    /\ LET got == MutGetOrInsert(vec, AsUsize(Head(iter).index, pointer_width),
                                 DefaultMessage)
       IN vec' = [got.vec EXCEPT ![got.at].role = Head(iter).event.role]
    /\ iter' = Tail(iter)
    /\ UNCHANGED <<pc, driverVars, walkVars, implVars, toolVars, memoryVars,
                   pointer_width>>

\* the next envelope is a Delta
ExtendDelta ==
    /\ pc = "extend" /\ iter # <<>>
    /\ Head(iter).event.kind = "Delta"
    /\ LET got == MutGetOrInsert(vec, AsUsize(Head(iter).index, pointer_width),
                                 DefaultMessage)
       IN vec' = [got.vec EXCEPT
                     ![got.at].content = DeltaContent(@, Head(iter).event.inner)]
    /\ iter' = Tail(iter)
    /\ UNCHANGED <<pc, driverVars, walkVars, implVars, toolVars, memoryVars,
                   pointer_width>>

\* the next envelope is an End: `_ => break`, after mut_get_or_insert
ExtendEnd ==
    /\ pc = "extend" /\ iter # <<>>
    /\ Head(iter).event.kind = "End"
    /\ vec' = MutGetOrInsert(vec, AsUsize(Head(iter).index, pointer_width),
                             DefaultMessage).vec
    /\ iter' = Tail(iter)
    /\ pc' = "extended"
    /\ UNCHANGED <<driverVars, walkVars, implVars, toolVars, memoryVars, pointer_width>>

\* the iterator is exhausted
ExtendExhausted ==
    /\ pc = "extend" /\ iter = <<>>
    /\ pc' = "returned"
    /\ UNCHANGED <<driverVars, walkVars, implVars, toolVars, memoryVars, extendVars>>

\* after the break: the rest of the iterator is dropped
ExtendReturn ==
    /\ pc = "extended"
    /\ iter' = <<>>
    /\ pc' = "returned"
    /\ UNCHANGED <<driverVars, walkVars, implVars, toolVars, memoryVars, vec,
                   pointer_width>>

ExtendNext ==
    \/ ExtendStart \/ ExtendDelta \/ ExtendEnd \/ ExtendExhausted \/ ExtendReturn

SpecExtend == ExtendInit /\ [][ExtendNext]_vars

\* the step that folds the envelope at the head of iter
FoldsEnvelope == pc = "extend" /\ iter # <<>>

\* C30: folding an envelope changes at most one message and grows the
\* vector by at most one: with an index below the length the message at
\* the index is the one updated, with any other index one default message
\* is appended and is the one updated; every other message stays as it
\* was, and after an End event the vector no longer changes.
C30_ExtendFrame ==
    [][/\ FoldsEnvelope =>
           LET index == Head(iter).index
               event == Head(iter).event
               below == IndexBelow(index, Len(vec))
               at == IF below THEN index.lo + 1 ELSE Len(vec) + 1
               old == IF below THEN vec[at] ELSE DefaultMessage
           IN /\ Len(vec') = IF below THEN Len(vec) ELSE Len(vec) + 1
              /\ \A i \in 1..Len(vec) : i # at => vec'[i] = vec[i]
              /\ event.kind = "Start" => vec'[at] = [old EXCEPT !.role = event.role]
              /\ event.kind = "Delta" => [vec'[at] EXCEPT !.content = old.content] = old
              /\ event.kind = "End" => vec'[at] = old
       /\ pc = "extended" => vec' = vec]_vars

====
